---- MODULE Spec2Model ----
(***************************************************************************)
(* Model of the document-analysis front end (src/index.js): the reactive   *)
(* signals, the async handlers that call the LLM proxy, and the text       *)
(* helpers they use.  Every await of a handler is a suspension point: the  *)
(* code up to the next await is one atomic action (single-threaded event   *)
(* loop), and user events and other completions interleave in between.     *)
(*                                                                         *)
(* Texts are sequences of atoms.  Backtick, "[", "]", "{", "}", " "        *)
(* and "\n" are the single characters the helpers look at; "json", "<svg"  *)
(* and "</svg>" are the literal substrings the regular expressions match;  *)
(* every other atom stands for a non-empty run of characters that contains *)
(* none of these.                                                          *)
(***************************************************************************)
EXTENDS Integers, Sequences, FiniteSets, TLC

\* ------------------------------------------------------------------ bounds
\* handler invocations (runs, uploads, chats, quizzes, optimizations) in one
\* behaviour, and setTimeout callbacks pending at once
MaxInvocations == 2
MaxSampleTimers == 1
MaxUploads == 2
MaxRaceRuns == 3

\* ------------------------------------------------------------ text helpers
\* the atom for one backtick character
Backtick == "BACKTICK"

\* what trim and the regex class \s strip: among it the no-break space
\* ("nbsp"), which JSON does not accept as whitespace
IsWhitespace(c) == c \in {" ", "\n", "nbsp"}

RECURSIVE TrimStart(_)
TrimStart(t) ==
    IF t # <<>> /\ IsWhitespace(Head(t)) THEN TrimStart(Tail(t)) ELSE t

RECURSIVE TrimEnd(_)
TrimEnd(t) ==
    IF t # <<>> /\ IsWhitespace(t[Len(t)])
    THEN TrimEnd(SubSeq(t, 1, Len(t) - 1))
    ELSE t

\* String.prototype.trim
Trim(t) == TrimEnd(TrimStart(t))

\* a faulty variant: the last occurrence instead of the first
IndexOfLast(t, c) ==
    IF \E i \in 1..Len(t) : t[i] = c
    THEN CHOOSE i \in 1..Len(t) : t[i] = c /\ \A j \in (i + 1)..Len(t) : t[j] # c
    ELSE 0

\* String.prototype.indexOf / lastIndexOf for a single atom, 1-based, 0 = -1
IndexOf(t, c) ==
    IF \E i \in 1..Len(t) : t[i] = c
    THEN CHOOSE i \in 1..Len(t) : t[i] = c /\ \A j \in 1..(i - 1) : t[j] # c
    ELSE 0

\* a faulty variant: the first occurrence instead of the last
LastIndexOfFirst(t, c) ==
    IF \E i \in 1..Len(t) : t[i] = c
    THEN CHOOSE i \in 1..Len(t) : t[i] = c /\ \A j \in 1..(i - 1) : t[j] # c
    ELSE 0

LastIndexOf(t, c) ==
    IF \E i \in 1..Len(t) : t[i] = c
    THEN CHOOSE i \in 1..Len(t) : t[i] = c /\ \A j \in (i + 1)..Len(t) : t[j] # c
    ELSE 0

\* three consecutive backticks starting at position i
IsFenceAt(t, i) ==
    /\ i >= 1
    /\ i + 2 <= Len(t)
    /\ t[i] = Backtick /\ t[i + 1] = Backtick /\ t[i + 2] = Backtick

\* first position >= i that holds no whitespace (Len(t)+1 when there is none)
RECURSIVE SkipWhitespace(_, _)
SkipWhitespace(t, i) ==
    IF i <= Len(t) /\ IsWhitespace(t[i]) THEN SkipWhitespace(t, i + 1) ELSE i

\* The fence regex /BBB(?:json)?\s*([\s\S]*?)\s*BBB/ (B a backtick) anchored at an opening fence at position
\* o.  The optional tag and the leading \s* are greedy (giving characters
\* back never helps: what they consume holds no backtick); the lazy group
\* ends at the first position from which whitespace and a closing fence
\* follow.
FenceMatchAt(t, o) ==
    LET afterFence == o + 3
        afterTag   == IF afterFence <= Len(t) /\ t[afterFence] = "json"
                      THEN afterFence + 1 ELSE afterFence
        start      == SkipWhitespace(t, afterTag)
        ends       == { e \in start..(Len(t) + 1) : IsFenceAt(t, SkipWhitespace(t, e)) }
    IN  IF ~IsFenceAt(t, o) \/ ends = {}
        THEN [found |-> FALSE, group |-> <<>>]
        ELSE LET e == CHOOSE x \in ends : \A y \in ends : x <= y
             IN  [found |-> TRUE, group |-> SubSeq(t, start, e - 1)]

\* String.prototype.match with the fence regex: leftmost match
FenceMatch(t) ==
    LET starts == { o \in 1..Len(t) : FenceMatchAt(t, o).found }
    IN  IF starts = {} THEN [found |-> FALSE, group |-> <<>>]
        ELSE FenceMatchAt(t, CHOOSE o \in starts : \A p \in starts : o <= p)

\* a faulty variant: bracket scanning tried before the fence
extractJsonFromTextScanFirst(text) ==
    LET trimmedText  == Trim(text)
        fenceMatch   == FenceMatch(trimmedText)
        firstBracket == IndexOf(trimmedText, "[")
        firstBrace   == IndexOf(trimmedText, "{")
        startIndex   == IF firstBracket # 0 /\ firstBrace # 0
                        THEN (IF firstBracket < firstBrace THEN firstBracket
                              ELSE firstBrace)
                        ELSE IF firstBracket # 0 THEN firstBracket
                        ELSE firstBrace
        lastBracket  == LastIndexOf(trimmedText, "]")
        lastBrace    == LastIndexOf(trimmedText, "}")
        endIndex     == IF lastBracket > lastBrace THEN lastBracket ELSE lastBrace
    IN  IF text = <<>> THEN <<>>
        ELSE IF startIndex # 0 /\ endIndex > startIndex
             THEN SubSeq(trimmedText, startIndex, endIndex)
        ELSE IF fenceMatch.found /\ fenceMatch.group # <<>> THEN Trim(fenceMatch.group)
        ELSE trimmedText

\* extractJsonFromText: the JSON candidate inside an LLM answer
extractJsonFromText(text) ==
    LET trimmedText  == Trim(text)
        fenceMatch   == FenceMatch(trimmedText)
        firstBracket == IndexOf(trimmedText, "[")
        firstBrace   == IndexOf(trimmedText, "{")
        startIndex   == IF firstBracket # 0 /\ firstBrace # 0
                        THEN (IF firstBracket < firstBrace THEN firstBracket
                              ELSE firstBrace)
                        ELSE IF firstBracket # 0 THEN firstBracket
                        ELSE firstBrace
        lastBracket  == LastIndexOf(trimmedText, "]")
        lastBrace    == LastIndexOf(trimmedText, "}")
        endIndex     == IF lastBracket > lastBrace THEN lastBracket ELSE lastBrace
    IN  IF text = <<>> THEN <<>>
        ELSE IF fenceMatch.found /\ fenceMatch.group # <<>> THEN Trim(fenceMatch.group)
        ELSE IF startIndex = 0 THEN trimmedText
        ELSE IF endIndex > startIndex THEN SubSeq(trimmedText, startIndex, endIndex)
        ELSE trimmedText

\* svgContent.match(/<svg[\s\S]*?<\/svg>/): from the leftmost "<svg" to the
\* first "</svg>" after it
SvgMatch(t) ==
    LET starts == { i \in 1..Len(t) :
                      t[i] = "<svg" /\ \E j \in (i + 1)..Len(t) : t[j] = "</svg>" }
    IN  IF starts = {} THEN [found |-> FALSE, match |-> <<>>]
        ELSE LET i == CHOOSE x \in starts : \A y \in starts : x <= y
                 j == CHOOSE x \in (i + 1)..Len(t) :
                        t[x] = "</svg>" /\ \A y \in (i + 1)..(x - 1) : t[y] # "</svg>"
             IN  [found |-> TRUE, match |-> SubSeq(t, i, j)]

\* --------------------------------------------------------------- JS values
Undefined == [t |-> "undefined"]
Null == [t |-> "null"]
Num(n) == [t |-> "number", v |-> n]
Str(s) == [t |-> "string", v |-> s]
Arr(items) == [t |-> "array", v |-> items]

\* property access o.k on a parsed value
Get(o, k) == IF o.t = "object" /\ k \in DOMAIN o THEN o[k] ELSE Undefined

\* ToBoolean
Truthy(x) ==
    CASE x.t = "undefined" -> FALSE
      [] x.t = "null" -> FALSE
      [] x.t = "number" -> x.v # 0
      [] x.t = "string" -> x.v # ""
      [] OTHER -> TRUE

IsArray(x) == x.t = "array"
TypeofObject(x) == x.t \in {"object", "array", "null"}

\* ----------------------------------------------------------- JSON documents
\* The JSON texts the oracle answers are built from, each with the value
\* JSON.parse gives it.  "sum", "st", "qa", "toc", "quiz", "opt" stand for
\* the key/value text inside the braces.
PlanWithSteps ==
    [t |-> "object", summary |-> Str("s"),
     steps |-> Arr(<<[t |-> "object", stepNumber |-> Num(1),
                      description |-> Str("d"), page |-> Num(1)]>>)]
PlanNoSteps == [t |-> "object", summary |-> Str("s"), steps |-> Arr(<<>>)]
\* a plan whose summary is a number and whose only step is numbered 2, on page 0
PlanOutOfOrder ==
    [t |-> "object", summary |-> Num(7),
     steps |-> Arr(<<[t |-> "object", stepNumber |-> Num(2),
                      description |-> Str("d"), page |-> Num(0)]>>)]
QaList == Arr(<<[t |-> "object", question |-> Str("q"), answer |-> Str("a")]>>)
QuizList ==
    Arr(<<[t |-> "object", question |-> Str("q"),
           options |-> Arr(<<Str("x"), Str("y")>>), correctAnswer |-> Str("x")],
          [t |-> "object", question |-> Str("p"),
           options |-> Arr(<<Str("x"), Str("y")>>), correctAnswer |-> Str("y")]>>)
SuggestionList == Arr(<<[t |-> "object", title |-> Str("t"), suggestion |-> Str("s")]>>)
TocList == Arr(<<[t |-> "object", title |-> Str("section"), page |-> Num(1), level |-> Num(1)]>>)

JsonPlanWithSteps == <<"{", "sum", "[", "{", "st", "}", "]", "}">>
JsonPlanNoSteps == <<"{", "sum", "[", "]", "}">>
JsonPlanOutOfOrder == <<"{", "sum7", "[", "{", "st2", "}", "]", "}">>
JsonEmptyObject == <<"{", "}">>
JsonQaList == <<"[", "{", "qa", "}", "]">>
JsonEmptyArray == <<"[", "]">>
JsonTocList == <<"[", "{", "toc", "}", "]">>
JsonQuizList == <<"[", "{", "quiz", "}", "]">>
JsonSuggestionList == <<"[", "{", "opt", "}", "]">>

\* the ways an answer wraps its payload
Fenced(j) ==
    <<Backtick, Backtick, Backtick, "json", "\n">> \o j
      \o <<"\n", Backtick, Backtick, Backtick>>
InProse(j) == <<"Here", " ">> \o j \o <<" ", "Thanks">>
NoJsonText == <<"no", " ", "json">>
SvgMarkup == <<"<svg", "g", "</svg>">>
SvgInProse == <<"Here", " ">> \o SvgMarkup \o <<"\n">>

\* ------------------------------------------------------ errors and results
Err(msg) == [t |-> "Error", message |-> msg]

ProxyNotConfiguredMsg == "Cloudflare Worker URL is not configured. Please update it in index.js."
ResourceExhaustedMsg == "RESOURCE_EXHAUSTED"

\* err instanceof Error && err.message.includes('Cloudflare Worker URL is not configured')
IsProxyNotConfigured(e) == e.t = "Error" /\ e.message = ProxyNotConfiguredMsg

\* err instanceof Error && (err.message.includes('quota') || err.message.includes('RESOURCE_EXHAUSTED'))
IsQuotaError(e) == e.t = "Error" /\ e.message = ResourceExhaustedMsg

\* a call either returns a value or throws
Return(v) == [ok |-> TRUE, v |-> v]
Throw(e) == [ok |-> FALSE, e |-> e]

\* what the network does with one request to the worker
HttpOk(text) == [kind |-> "ok", text |-> text]
HttpQuota == [kind |-> "httpError", quota |-> TRUE]
HttpFailure == [kind |-> "httpError", quota |-> FALSE]

\* callSecureApi: the response's text, or the error it throws
callSecureApi(configured, net) ==
    IF ~configured THEN Throw(Err(ProxyNotConfiguredMsg))
    ELSE IF net.kind = "httpError"
         THEN IF net.quota THEN Throw(Err(ResourceExhaustedMsg))
              ELSE Throw(Err("API Error: 500"))
    ELSE Return(net.text)

\* JSON.parse on the documents above, as a call that returns a value or
\* throws; "null" parses to null and any other text is not JSON
JSONParse(c) ==
    CASE c = JsonPlanWithSteps -> Return(PlanWithSteps)
      [] c = JsonPlanNoSteps -> Return(PlanNoSteps)
      [] c = JsonPlanOutOfOrder -> Return(PlanOutOfOrder)
      [] c = JsonEmptyObject -> Return([t |-> "object"])
      [] c = JsonQaList -> Return(QaList)
      [] c = JsonEmptyArray -> Return(Arr(<<>>))
      [] c = JsonTocList -> Return(TocList)
      [] c = JsonQuizList -> Return(QuizList)
      [] c = JsonSuggestionList -> Return(SuggestionList)
      [] c = <<"null">> -> Return(Null)
      [] OTHER -> Throw(Err("Unexpected token"))

\* JSON.parse(extractJsonFromText(text))
ParseJsonFromText(text) == JSONParse(extractJsonFromText(text))

\* the validation of the parsed plan (parsed is what JSON.parse did)
ValidatePlan(parsed) ==
    IF ~parsed.ok THEN parsed
    ELSE IF \/ ~Truthy(parsed.v)
            \/ ~TypeofObject(parsed.v)
            \/ ~Truthy(Get(parsed.v, "summary"))
            \/ ~Truthy(Get(parsed.v, "steps"))
            \/ ~IsArray(Get(parsed.v, "steps"))
    THEN Throw(Err("plan failed validation"))
    ELSE parsed

\* handleGenerate, stage 1 after the await: parse and validate the plan
AnalysisStage(response) ==
    IF ~response.ok THEN response ELSE ValidatePlan(ParseJsonFromText(response.v))

SvgOf(svgMatch) ==
    IF ~svgMatch.found THEN Throw(Err("output contains no valid SVG")) ELSE Return(svgMatch.match)

\* handleGenerate, stage 2 after the await: the svg block of the answer
DiagramStage(response) ==
    IF ~response.ok THEN response ELSE SvgOf(SvgMatch(Trim(response.v)))

QaDataOf(parsed) ==
    IF ~parsed.ok THEN parsed
    ELSE IF ~IsArray(parsed.v) THEN Throw(Err("no valid questions and answers"))
    ELSE parsed

\* generateTopQuestions after its await
generateTopQuestions(response) ==
    IF ~response.ok THEN response ELSE QaDataOf(ParseJsonFromText(response.v))

\* the error box handleGenerate's catch block shows
NoMessage == [kind |-> "null"]
EmptyInputMessage == [kind |-> "emptyInput"]
GenerateErrorMessage(err) ==
    IF IsProxyNotConfigured(err) THEN [kind |-> "proxyNotConfigured"]
    ELSE IF IsQuotaError(err) THEN [kind |-> "quota"]
    ELSE IF err.t = "Error" THEN [kind |-> "error", text |-> err.message]
    ELSE [kind |-> "error", text |-> "unexpected"]

\* --------------------------------------------------------- PDF extraction
\* A text item of a page: str is a sequence of characters, and x
\* (transform[4]), y (transform[5]), width and height are in quarters of a
\* unit, so that rounding and the 0.25 factor stay in the integers.
ArabicChars == {"alef", "ba"}
LatinChars == {"a", "b"}

\* a faulty variant: the baseline is cut to an integer instead of rounded
FloorY(item) == item.y \div 4

\* Math.round(item.transform[5])
RoundY(item) == (item.y + 2) \div 4

\* faulty variant of IsArabicOnly: the test for Latin letters is missing
IsArabicWithLatin(text) == \E i \in 1..Len(text) : text[i] \in ArabicChars

\* /[\u0600-\u06FF]/.test(text) && !/[a-zA-Z]/.test(text)
IsArabicOnly(text) ==
    /\ \E i \in 1..Len(text) : text[i] \in ArabicChars
    /\ \A i \in 1..Len(text) : text[i] \notin LatinChars

RECURSIVE Reverse(_)
Reverse(t) == IF t = <<>> THEN <<>> ELSE Reverse(Tail(t)) \o <<Head(t)>>

\* the items the reducer keeps
IsEligible(item) == item.str # <<>> /\ Trim(item.str) # <<>>

\* a faulty variant: the smaller x first
RECURSIVE InsertByXAscending(_, _)
InsertByXAscending(sorted, item) ==
    IF sorted = <<>> THEN <<item>>
    ELSE IF Head(sorted).x <= item.x
         THEN <<Head(sorted)>> \o InsertByXAscending(Tail(sorted), item)
         ELSE <<item>> \o sorted

\* Array.prototype.sort((a, b) => b.transform[4] - a.transform[4]), stable
RECURSIVE InsertByX(_, _)
InsertByX(sorted, item) ==
    IF sorted = <<>> THEN <<item>>
    ELSE IF Head(sorted).x >= item.x
         THEN <<Head(sorted)>> \o InsertByX(Tail(sorted), item)
         ELSE <<item>> \o sorted

RECURSIVE SortByXDesc(_)
SortByXDesc(items) ==
    IF items = <<>> THEN <<>>
    ELSE InsertByX(SortByXDesc(SubSeq(items, 1, Len(items) - 1)), items[Len(items)])

\* faulty variant of LineText: the threshold is a quarter of the height of
\* the next item
RECURSIVE LineTextNextHeight(_, _)
LineTextNextHeight(arr, index) ==
    IF index > Len(arr) THEN <<>>
    ELSE LET currentItem == arr[index]
             text == IF IsArabicOnly(currentItem.str)
                     THEN Reverse(currentItem.str) ELSE currentItem.str
             gap  == /\ index < Len(arr)
                     /\ 4 * currentItem.x >
                          4 * (arr[index + 1].x + arr[index + 1].width) + arr[index + 1].height
         IN  text \o (IF gap THEN <<" ">> ELSE <<>>) \o LineTextNextHeight(arr, index + 1)

\* the reduce over one sorted line
RECURSIVE LineText(_, _)
LineText(arr, index) ==
    IF index > Len(arr) THEN <<>>
    ELSE LET currentItem == arr[index]
             text == IF IsArabicOnly(currentItem.str)
                     THEN Reverse(currentItem.str) ELSE currentItem.str
             gap  == /\ index < Len(arr)
                     /\ 4 * currentItem.x >
                          4 * (arr[index + 1].x + arr[index + 1].width) + currentItem.height
         IN  text \o (IF gap THEN <<" ">> ELSE <<>>) \o LineText(arr, index + 1)

\* faulty variant of SortedLines: smallest baseline first
RECURSIVE SortedLinesAscending(_)
SortedLinesAscending(keys) ==
    IF keys = {} THEN <<>>
    ELSE LET bottom == CHOOSE k \in keys : \A other \in keys : k <= other
         IN  <<bottom>> \o SortedLinesAscending(keys \ {bottom})

\* the rounded baselines of a page, largest first
RECURSIVE SortedLines(_)
SortedLines(keys) ==
    IF keys = {} THEN <<>>
    ELSE LET top == CHOOSE k \in keys : \A other \in keys : k >= other
         IN  <<top>> \o SortedLines(keys \ {top})

RECURSIVE PageLines(_, _)
PageLines(items, ys) ==
    IF ys = <<>> THEN <<>>
    ELSE LET line == SelectSeq(items, LAMBDA it : IsEligible(it) /\ RoundY(it) = Head(ys))
         IN  LineText(SortByXDesc(line), 1) \o <<"\n">> \o PageLines(items, Tail(ys))

PageMarker(i) == <<"[", "Source:", " ", "Page", " ", ToString(i), "]", "\n">>

\* the text one page adds after its marker
PageText(items) ==
    IF Len(items) = 0 THEN <<"\n", "\n">>
    ELSE LET keys == { RoundY(items[i]) : i \in { j \in 1..Len(items) : IsEligible(items[j]) } }
         IN  PageLines(items, SortedLines(keys)) \o <<"\n">>

\* faulty variant of extractTextFromPdf: the marker follows the page's text
RECURSIVE extractTextFromPdfMarkerLast(_, _)
extractTextFromPdfMarkerLast(pages, i) ==
    IF i > Len(pages) THEN <<>>
    ELSE PageText(pages[i]) \o PageMarker(i) \o extractTextFromPdfMarkerLast(pages, i + 1)

\* extractTextFromPdf over the pages' text items
RECURSIVE extractTextFromPdf(_, _)
extractTextFromPdf(pages, i) ==
    IF i > Len(pages) THEN <<>>
    ELSE PageMarker(i) \o PageText(pages[i]) \o extractTextFromPdf(pages, i + 1)

\* ------------------------------------------------------------------- state
VARIABLES
    workerUrlConfigured,   \* CLOUDFLARE_WORKER_URL was replaced by a real URL
    userInput, pdfText, pdfFileName, documentSource, tableOfContents,
    status, loadingMessage, errorMessage, summaryData, flowchartSvg,
    qaStatus, topQuestions,
    optimizationStatus, optimizationSuggestions, optimizationError,
    quizStatus, quizQuestions, currentQuestionIndex, userAnswers, quizError,
    chatHistory, chatInput, isChatting, isNodeQuery,
    runs,            \* the invocations of handleGenerate that reached the try block
    uploads,         \* the invocations of handleFileChange
    chats,           \* the invocations of handleSendMessage that sent a request
    quizzes,         \* the invocations of handleStartQuiz
    optimizations,   \* the invocations of handleGenerateOptimizations
    sampleTimers,    \* pending setTimeout callbacks of handleTrySample
    nodeTimers,      \* pending setTimeout callbacks of startChatWithNode
    downloaded       \* the file the browser was last told to download

signalVars ==
    <<userInput, pdfText, pdfFileName, documentSource, tableOfContents,
      status, loadingMessage, errorMessage, summaryData, flowchartSvg,
      qaStatus, topQuestions,
      optimizationStatus, optimizationSuggestions, optimizationError,
      quizStatus, quizQuestions, currentQuestionIndex, userAnswers, quizError,
      chatHistory, chatInput, isChatting, isNodeQuery>>

vars ==
    <<workerUrlConfigured, signalVars, runs, uploads, chats, quizzes,
      optimizations, sampleTimers, nodeTimers, downloaded>>

\* the signals (and the configuration constant) as one record, so that a
\* handler is a function on it
Signals ==
    [workerUrlConfigured |-> workerUrlConfigured,
     userInput |-> userInput, pdfText |-> pdfText, pdfFileName |-> pdfFileName,
     documentSource |-> documentSource, tableOfContents |-> tableOfContents,
     status |-> status, loadingMessage |-> loadingMessage,
     errorMessage |-> errorMessage, summaryData |-> summaryData,
     flowchartSvg |-> flowchartSvg, qaStatus |-> qaStatus,
     topQuestions |-> topQuestions, optimizationStatus |-> optimizationStatus,
     optimizationSuggestions |-> optimizationSuggestions,
     optimizationError |-> optimizationError, quizStatus |-> quizStatus,
     quizQuestions |-> quizQuestions, currentQuestionIndex |-> currentQuestionIndex,
     userAnswers |-> userAnswers, quizError |-> quizError,
     chatHistory |-> chatHistory, chatInput |-> chatInput,
     isChatting |-> isChatting, isNodeQuery |-> isNodeQuery]

SetSignals(n) ==
    /\ userInput' = n.userInput
    /\ pdfText' = n.pdfText
    /\ pdfFileName' = n.pdfFileName
    /\ documentSource' = n.documentSource
    /\ tableOfContents' = n.tableOfContents
    /\ status' = n.status
    /\ loadingMessage' = n.loadingMessage
    /\ errorMessage' = n.errorMessage
    /\ summaryData' = n.summaryData
    /\ flowchartSvg' = n.flowchartSvg
    /\ qaStatus' = n.qaStatus
    /\ topQuestions' = n.topQuestions
    /\ optimizationStatus' = n.optimizationStatus
    /\ optimizationSuggestions' = n.optimizationSuggestions
    /\ optimizationError' = n.optimizationError
    /\ quizStatus' = n.quizStatus
    /\ quizQuestions' = n.quizQuestions
    /\ currentQuestionIndex' = n.currentQuestionIndex
    /\ userAnswers' = n.userAnswers
    /\ quizError' = n.quizError
    /\ chatHistory' = n.chatHistory
    /\ chatInput' = n.chatInput
    /\ isChatting' = n.isChatting
    /\ isNodeQuery' = n.isNodeQuery

\* the values the signals are declared with
InitialSignals(configured) ==
    [workerUrlConfigured |-> configured,
     userInput |-> <<>>, pdfText |-> <<>>, pdfFileName |-> "",
     documentSource |-> <<>>, tableOfContents |-> Null,
     status |-> "idle", loadingMessage |-> "",
     errorMessage |-> NoMessage, summaryData |-> Null,
     flowchartSvg |-> <<>>, qaStatus |-> "idle",
     topQuestions |-> Arr(<<>>), optimizationStatus |-> "idle",
     optimizationSuggestions |-> Arr(<<>>),
     optimizationError |-> Null, quizStatus |-> "idle",
     quizQuestions |-> Arr(<<>>), currentQuestionIndex |-> 0,
     userAnswers |-> <<>>, quizError |-> Null,
     chatHistory |-> <<>>, chatInput |-> <<>>,
     isChatting |-> FALSE, isNodeQuery |-> FALSE]

\* handleClear
handleClear(s) ==
    [s EXCEPT !.userInput = <<>>, !.pdfText = <<>>, !.documentSource = <<>>,
              !.pdfFileName = "", !.tableOfContents = Null, !.flowchartSvg = <<>>,
              !.errorMessage = NoMessage, !.summaryData = Null, !.status = "idle",
              !.loadingMessage = "", !.qaStatus = "idle", !.topQuestions = Arr(<<>>),
              !.chatHistory = <<>>, !.chatInput = <<>>, !.isChatting = FALSE,
              !.quizStatus = "idle", !.quizQuestions = Arr(<<>>),
              !.currentQuestionIndex = 0, !.userAnswers = <<>>, !.quizError = Null,
              !.optimizationStatus = "idle", !.optimizationSuggestions = Arr(<<>>),
              !.optimizationError = Null]

\* the sample data of handleTrySample
SampleDocumentText == PageMarker(1) \o <<"sample", "\n">>
SampleSvgData == <<"<svg", "sample", "</svg>">>
SamplePlan ==
    [t |-> "object", summary |-> Str("sample"),
     steps |-> Arr([n \in 1..4 |-> [t |-> "object", stepNumber |-> Num(n),
                                    description |-> Str("sample"), page |-> Num(1)]])]
SampleQuestions ==
    Arr([n \in 1..4 |-> [t |-> "object", question |-> Str("sample"),
                         answer |-> Str("sample")]])

\* handleTrySample up to the setTimeout
handleTrySample(s) ==
    [handleClear(s) EXCEPT !.status = "generating", !.loadingMessage = "sample"]

\* the setTimeout callback of handleTrySample
SampleTimeout(s) ==
    [s EXCEPT !.userInput = <<>>, !.pdfText = SampleDocumentText,
              !.documentSource = SampleDocumentText, !.summaryData = SamplePlan,
              !.flowchartSvg = SampleSvgData, !.topQuestions = SampleQuestions,
              !.qaStatus = "success", !.status = "success", !.loadingMessage = ""]

\* ---------------------------------------------------------- handleGenerate
\* the record of one oracle request: callSecureApi reaches fetch only when
\* the worker URL is configured
Request(kind, document, section) ==
    [kind |-> kind, document |-> document, section |-> section]

Issue(s, sent, request) ==
    IF s.workerUrlConfigured THEN Append(sent, request) ELSE sent

\* the query of the analysis prompt when the user gave none
DefaultQuery == <<"summarize", " ", "the", " ", "whole", " ", "document">>

\* the analysis request: its prompt carries the effective query and the
\* document
AnalysisRequest(document, userQuery) ==
    [kind |-> "analysis", document |-> document, section |-> "",
     query |-> IF userQuery # <<>> THEN userQuery ELSE DefaultQuery]

\* faulty variant of GenerateCatches: quota errors are thrown on
CatchesAllButQuota(err) == ~IsQuotaError(err)

\* the catch clause of handleGenerate catches every error (no rethrow)
GenerateCatches(err) == TRUE

Settle(result, catches) ==
    IF result.ok \/ catches THEN "fulfilled" ELSE "rejected"

\* faulty variant of handleGenerate: the error box of the previous run is
\* not cleared
handleGenerateKeepsError(s, sectionTitle) ==
    LET contextFromInput == Trim(s.userInput)
        contextFromPdf   == Trim(s.pdfText)
        documentContext  == IF contextFromPdf # <<>> THEN contextFromPdf
                            ELSE contextFromInput
        userQuery        == IF contextFromPdf # <<>> THEN contextFromInput ELSE <<>>
    IN  IF contextFromInput = <<>> /\ contextFromPdf = <<>>
        THEN [started |-> FALSE,
              sig |-> [s EXCEPT !.errorMessage = EmptyInputMessage, !.status = "error"]]
        ELSE [started |-> TRUE,
              sig |-> [s EXCEPT !.documentSource = documentContext,
                                !.status = "generating", !.qaStatus = "idle",
                                !.optimizationStatus = "idle",
                                !.topQuestions = Arr(<<>>), !.flowchartSvg = <<>>,
                                !.summaryData = Null,
                                !.optimizationSuggestions = Arr(<<>>),
                                !.loadingMessage = "stage1"],
              run |-> [pc |-> "analysis", documentContext |-> documentContext,
                       sectionTitle |-> sectionTitle,
                       sent |-> Issue(s, <<>>, AnalysisRequest(documentContext, userQuery)),
                       received |-> <<>>, plan |-> Null, svgMatch |-> <<>>,
                       qaData |-> Null,
                       wrote |-> <<>>, settled |-> "pending"]]

\* a faulty variant: the empty-input return also clears the summary and the
\* diagram
handleGenerateEmptyClears(s, sectionTitle) ==
    IF Trim(s.userInput) = <<>> /\ Trim(s.pdfText) = <<>>
    THEN [started |-> FALSE,
          sig |-> [s EXCEPT !.summaryData = Null, !.flowchartSvg = <<>>,
                            !.errorMessage = EmptyInputMessage, !.status = "error"]]
    ELSE handleGenerateKeepsError(
             [s EXCEPT !.errorMessage = NoMessage], sectionTitle)

\* a faulty variant: the text input is the document whenever it is not
\* blank, and the uploaded text only otherwise
handleGeneratePrefersInput(s, sectionTitle) ==
    LET out == handleGenerateKeepsError([s EXCEPT !.errorMessage = NoMessage],
                                        sectionTitle)
        contextFromInput == Trim(s.userInput)
    IN  IF ~out.started \/ contextFromInput = <<>> THEN out
        ELSE [out EXCEPT !.sig.documentSource = contextFromInput,
                         !.run.documentContext = contextFromInput,
                         !.run.sent = Issue(s, <<>>, AnalysisRequest(contextFromInput,
                                                                     <<>>))]

\* handleGenerate up to its first await.  started is FALSE when it returned
\* before the try block.
handleGenerate(s, sectionTitle) ==
    LET contextFromInput == Trim(s.userInput)
        contextFromPdf   == Trim(s.pdfText)
        documentContext  == IF contextFromPdf # <<>> THEN contextFromPdf
                            ELSE contextFromInput
        userQuery        == IF contextFromPdf # <<>> THEN contextFromInput ELSE <<>>
    IN  IF contextFromInput = <<>> /\ contextFromPdf = <<>>
        THEN [started |-> FALSE,
              sig |-> [s EXCEPT !.errorMessage = EmptyInputMessage, !.status = "error"]]
        ELSE [started |-> TRUE,
              sig |-> [s EXCEPT !.documentSource = documentContext,
                                !.status = "generating", !.qaStatus = "idle",
                                !.optimizationStatus = "idle",
                                !.topQuestions = Arr(<<>>), !.flowchartSvg = <<>>,
                                !.errorMessage = NoMessage, !.summaryData = Null,
                                !.optimizationSuggestions = Arr(<<>>),
                                !.loadingMessage = "stage1"],
              run |-> [pc |-> "analysis", documentContext |-> documentContext,
                       sectionTitle |-> sectionTitle,
                       sent |-> Issue(s, <<>>, AnalysisRequest(documentContext, userQuery)),
                       received |-> <<>>, plan |-> Null, svgMatch |-> <<>>,
                       qaData |-> Null,
                       wrote |-> <<>>, settled |-> "pending"]]

\* a faulty variant: the failure is recorded but the run is not marked failed
GenerateFailedLeavesStatus(s, run, result) ==
    [sig |-> [s EXCEPT !.qaStatus = "error",
                       !.errorMessage = GenerateErrorMessage(result.e),
                       !.flowchartSvg = <<>>,
                       !.loadingMessage = ""],
     run |-> [run EXCEPT !.pc = "done",
                         !.settled = Settle(result, GenerateCatches(result.e))]]

\* the catch and finally blocks of handleGenerate
GenerateFailed(s, run, result) ==
    [sig |-> [s EXCEPT !.qaStatus = "error",
                       !.errorMessage = GenerateErrorMessage(result.e),
                       !.flowchartSvg = <<>>, !.status = "error",
                       !.loadingMessage = ""],
     run |-> [run EXCEPT !.pc = "done",
                         !.settled = Settle(result, GenerateCatches(result.e))]]

\* stage 3 up to the await inside generateTopQuestions
StartQuestions(s, run) ==
    LET qaContext == IF run.sectionTitle # "" THEN run.sectionTitle
                     ELSE IF s.pdfFileName # "" THEN "whole document"
                     ELSE "provided text"
    IN  [sig |-> [s EXCEPT !.loadingMessage = "stage3", !.qaStatus = "generating"],
         run |-> [run EXCEPT !.pc = "questions",
                             !.sent = Issue(s, @, Request("questions", run.documentContext,
                                                       qaContext))]]

\* a faulty variant: the question list is cleared with the results
handleClearResultsAndQuestions(s) ==
    [s EXCEPT !.userInput = <<>>, !.flowchartSvg = <<>>, !.errorMessage = NoMessage,
              !.summaryData = Null, !.status = "idle", !.loadingMessage = "",
              !.topQuestions = Arr(<<>>), !.qaStatus = "idle"]

\* handleClearResults
handleClearResults(s) ==
    [s EXCEPT !.userInput = <<>>, !.flowchartSvg = <<>>, !.errorMessage = NoMessage,
              !.summaryData = Null, !.status = "idle", !.loadingMessage = ""]

\* handleTocClick
handleTocClick(s, item) ==
    handleGenerate([s EXCEPT !.summaryData = Null, !.flowchartSvg = <<>>,
                             !.errorMessage = NoMessage,
                             !.userInput = <<"summarize", " ", item.title.v>>],
                   item.title.v)

\* faulty variant of AnalysisSettled: a plan without steps is sent to the
\* diagram stage like any other
AnalysisSettledNoSkip(s, run, result) ==
    IF ~result.ok THEN GenerateFailed(s, run, result)
    ELSE [sig |-> [s EXCEPT !.summaryData = result.v, !.loadingMessage = "stage2"],
          run |-> [run EXCEPT !.plan = result.v, !.wrote = Append(@, "summaryData"),
                              !.pc = "diagram",
                              !.sent = Issue(s, @, Request("diagram", <<>>, ""))]]

\* faulty variant of AnalysisSettled: the diagram and the question requests
\* are issued together
AnalysisSettledEager(s, run, result) ==
    IF ~result.ok THEN GenerateFailed(s, run, result)
    ELSE [sig |-> [s EXCEPT !.summaryData = result.v, !.loadingMessage = "stage2"],
          run |-> [run EXCEPT !.plan = result.v, !.wrote = Append(@, "summaryData"),
                              !.pc = "diagram",
                              !.sent = Issue(s, Issue(s, @, Request("diagram", <<>>, "")),
                                             Request("questions", run.documentContext, ""))]]

\* handleGenerate from the first await to the next one
AnalysisSettled(s, run, result) ==
    IF ~result.ok THEN GenerateFailed(s, run, result)
    ELSE IF Len(Get(result.v, "steps").v) > 0
    THEN [sig |-> [s EXCEPT !.summaryData = result.v, !.loadingMessage = "stage2"],
          run |-> [run EXCEPT !.plan = result.v, !.wrote = Append(@, "summaryData"),
                              !.pc = "diagram",
                              !.sent = Issue(s, @, Request("diagram", <<>>, ""))]]
    ELSE StartQuestions([s EXCEPT !.summaryData = result.v, !.flowchartSvg = <<>>],
                        [run EXCEPT !.plan = result.v,
                                    !.wrote = @ \o <<"summaryData", "flowchartSvg">>])

\* run.received is the history of the answers callSecureApi gave the run
AfterAnalysis(s, run, response) ==
    AnalysisSettled(s, [run EXCEPT !.received = Append(@, response)],
                    AnalysisStage(response))

\* handleGenerate from the second await to the third
DiagramSettled(s, run, result) ==
    IF ~result.ok THEN GenerateFailed(s, run, result)
    ELSE StartQuestions([s EXCEPT !.flowchartSvg = result.v],
                        [run EXCEPT !.svgMatch = result.v,
                                    !.wrote = Append(@, "flowchartSvg")])

AfterDiagram(s, run, response) ==
    DiagramSettled(s, [run EXCEPT !.received = Append(@, response)],
                   DiagramStage(response))

\* faulty variant of QuestionsSettled: the overall status is not set
QuestionsSettledKeepsStatus(s, run, result) ==
    IF ~result.ok THEN GenerateFailed(s, run, result)
    ELSE [sig |-> [s EXCEPT !.topQuestions = result.v, !.qaStatus = "success",
                            !.loadingMessage = ""],
          run |-> [run EXCEPT !.pc = "done", !.settled = "fulfilled",
                              !.qaData = result.v,
                              !.wrote = Append(@, "topQuestions")]]

\* handleGenerate from the third await to its end
QuestionsSettled(s, run, result) ==
    IF ~result.ok THEN GenerateFailed(s, run, result)
    ELSE [sig |-> [s EXCEPT !.topQuestions = result.v, !.qaStatus = "success",
                            !.status = "success", !.loadingMessage = ""],
          run |-> [run EXCEPT !.pc = "done", !.settled = "fulfilled",
                              !.qaData = result.v,
                              !.wrote = Append(@, "topQuestions")]]

AfterQuestions(s, run, response) ==
    QuestionsSettled(s, [run EXCEPT !.received = Append(@, response)],
                     generateTopQuestions(response))

\* -------------------------------------------------------- handleFileChange

\* faulty variant of IsImageType: everything but a PDF counts as an image
IsNotPdfType(type) == type # "application/pdf"

\* file.type.startsWith('image/')
IsImageType(type) == type \in {"image/png"}

TextItem(str, x, y) == [str |-> str, x |-> x, y |-> y, width |-> 8, height |-> 8]

\* the files a user uploads
PdfWithText ==
    [type |-> "application/pdf", name |-> "doc.pdf",
     pages |-> << <<TextItem(<<"a">>, 40, 400), TextItem(<<"b">>, 8, 401)>> >>]
PdfWithoutText ==
    [type |-> "application/pdf", name |-> "blank.pdf",
     pages |-> << <<>>, <<TextItem(<<" ">>, 40, 400)>> >>]
ImageFile == [type |-> "image/png", name |-> "scan.png"]
OtherFile == [type |-> "text/plain", name |-> "notes.txt"]
UploadFiles == {PdfWithText, PdfWithoutText, ImageFile, OtherFile}

\* the catch clause of handleFileChange catches every error (no rethrow)
FileChangeCatches(err) == TRUE

\* the catch and finally blocks of handleFileChange
FileChangeFailed(s, upload, result) ==
    [started |-> FALSE,
     sig |-> [s EXCEPT !.errorMessage =
                          IF IsProxyNotConfigured(result.e)
                          THEN [kind |-> "proxyNotConfigured"]
                          ELSE IF result.e.t = "Error"
                          THEN [kind |-> "error", text |-> result.e.message]
                          ELSE [kind |-> "error", text |-> "file processing failed"],
                       !.status = "error", !.pdfFileName = "",
                       !.loadingMessage = ""],
     upload |-> [upload EXCEPT !.pc = "done",
                               !.settled = Settle(result, FileChangeCatches(result.e))]]

\* handleFileChange up to its first await
handleFileChange(s, file) ==
    LET s1 == [handleClear(s) EXCEPT !.pdfFileName = file.name, !.status = "parsing"]
        upload == [pc |-> "start", file |-> file, sent |-> <<>>, settled |-> "pending"]
    IN  IF file.type = "application/pdf"
        THEN [started |-> FALSE,
              sig |-> [s1 EXCEPT !.loadingMessage = "readingPdf"],
              upload |-> [upload EXCEPT !.pc = "readPdf"]]
        ELSE IF IsImageType(file.type)
        THEN [started |-> FALSE,
              sig |-> [s1 EXCEPT !.loadingMessage = "ocr"],
              upload |-> [upload EXCEPT !.pc = "readImage"]]
        ELSE FileChangeFailed(s1, upload, Throw(Err("unsupported file type")))

\* from the extracted text to the await inside extractTocFromText
AfterText(s, upload, extracted) ==
    IF ~extracted.ok THEN FileChangeFailed(s, upload, extracted)
    ELSE IF Trim(extracted.v) = <<>>
    THEN FileChangeFailed(s, upload, Throw(Err("no text found in the file")))
    ELSE [started |-> FALSE,
          sig |-> [s EXCEPT !.pdfText = extracted.v, !.documentSource = extracted.v,
                            !.loadingMessage = "toc"],
          upload |-> [upload EXCEPT !.pc = "toc",
                                    !.sent = Issue(s, @, Request("toc", extracted.v, ""))]]

\* await extractTextFromPdf(file): decoded is the pages pdf.js returns, or
\* the error it throws
AfterPdfRead(s, upload, decoded) ==
    AfterText(s, upload,
              IF decoded.ok THEN Return(extractTextFromPdf(decoded.v, 1)) ELSE decoded)

\* extractTextFromImage after fileToGenerativePart: the OCR request, or the
\* error its catch clause throws
AfterImageRead(s, upload, part) ==
    IF part.ok
    THEN [started |-> FALSE, sig |-> s,
          upload |-> [upload EXCEPT !.pc = "ocr",
                                    !.sent = Issue(s, @, Request("ocr", <<>>, ""))]]
    ELSE FileChangeFailed(s, upload,
                          IF IsProxyNotConfigured(part.e) THEN part
                          ELSE Throw(Err("failed to extract the text of the image")))

\* extractTextFromImage after the oracle call
AfterOcr(s, upload, response) ==
    AfterText(s, upload,
              IF response.ok THEN response
              ELSE IF IsProxyNotConfigured(response.e) THEN response
              ELSE Throw(Err("failed to extract the text of the image")))

\* extractTocFromText after the oracle call
TocOf(parsed) ==
    IF parsed.ok
    THEN Return(IF IsArray(parsed.v) /\ Len(parsed.v.v) > 0 THEN parsed.v ELSE Null)
    ELSE IF IsProxyNotConfigured(parsed.e) THEN parsed
    ELSE Return(Null)

extractTocFromText(response) ==
    TocOf(IF response.ok THEN ParseJsonFromText(response.v) ELSE response)

\* handleFileChange from the table of contents to its end: it starts an
\* analysis run (gen is what handleGenerate did up to its first await),
\* does not await it, and runs its finally block
FileChangeDone(upload, gen) ==
    [started |-> gen.started,
     sig |-> [gen.sig EXCEPT !.loadingMessage = ""],
     run |-> IF gen.started THEN gen.run ELSE Null,
     upload |-> [upload EXCEPT !.pc = "done", !.settled = "fulfilled"]]

\* toc is what extractTocFromText returned or threw
AfterToc(s, upload, toc) ==
    IF ~toc.ok THEN FileChangeFailed(s, upload, toc)
    ELSE FileChangeDone(upload,
            handleGenerate([s EXCEPT !.tableOfContents = toc.v, !.status = "idle"], ""))

\* ------------------------------------------------ chat, quiz, optimization

\* the catch clauses of the feature handlers catch every error (no rethrow)
SendMessageCatches(err) == TRUE
StartQuizCatches(err) == TRUE
OptimizationsCatches(err) == TRUE

\* handleSendMessage up to its await; started is FALSE on the early return
handleSendMessage(s) ==
    LET userMessage == Trim(s.chatInput)
        newHistory  == Append(s.chatHistory, [role |-> "user", content |-> userMessage])
    IN  IF userMessage = <<>> \/ s.isChatting \/ s.documentSource = <<>>
        THEN [started |-> FALSE, sig |-> s]
        ELSE [started |-> TRUE,
              sig |-> [s EXCEPT !.chatHistory =
                                   Append(newHistory, [role |-> "model", content |-> <<>>]),
                                !.chatInput = <<>>, !.isChatting = TRUE,
                                !.isNodeQuery = FALSE],
              chat |-> [pc |-> "chat", nodeQuery |-> s.isNodeQuery,
                        sent |-> Issue(s, <<>>, Request("chat", s.documentSource, "")),
                        settled |-> "pending"]]

\* handleSendMessage after its await
AfterChat(s, chat, response) ==
    LET currentHistory == s.chatHistory
        n == Len(currentHistory)
        content == IF response.ok THEN response.v
                   ELSE IF IsProxyNotConfigured(response.e) THEN <<"configuration error">>
                   ELSE <<"sorry, an error occurred">>
    IN  [sig |-> [s EXCEPT !.chatHistory =
                              IF n > 0 /\ currentHistory[n].role = "model"
                              THEN [currentHistory EXCEPT ![n].content = content]
                              ELSE currentHistory,
                           !.isChatting = FALSE],
         chat |-> [chat EXCEPT !.pc = "done",
                               !.settled = Settle(response, SendMessageCatches(response.e))]]

\* handleStartQuiz up to its await
handleStartQuiz(s) ==
    IF s.documentSource = <<>> THEN [started |-> FALSE, sig |-> s]
    ELSE [started |-> TRUE,
          sig |-> [s EXCEPT !.quizStatus = "generating", !.quizError = Null],
          quiz |-> [pc |-> "quiz",
                    sent |-> Issue(s, <<>>, Request("quiz", s.documentSource, "")),
                    settled |-> "pending"]]

\* a JSON answer that must be a non-empty array
NonEmptyArrayOf(parsed, message) ==
    IF ~parsed.ok THEN parsed
    ELSE IF ~IsArray(parsed.v) \/ Len(parsed.v.v) = 0 THEN Throw(Err(message))
    ELSE parsed

NonEmptyArrayStage(response, message) ==
    IF ~response.ok THEN response
    ELSE NonEmptyArrayOf(ParseJsonFromText(response.v), message)

\* handleStartQuiz after its await: result is what the try block computed
\* or threw
AfterQuiz(s, quiz, result) ==
    [sig |-> IF result.ok
             THEN [s EXCEPT !.quizQuestions = result.v, !.currentQuestionIndex = 0,
                            !.userAnswers = <<>>, !.quizStatus = "active"]
             ELSE [s EXCEPT !.quizError = result.e, !.quizStatus = "error"],
     quiz |-> [quiz EXCEPT !.pc = "done",
                           !.settled = Settle(result, StartQuizCatches(result.e))]]

\* a faulty variant: the answer to the last question is not recorded
handleAnswerSelectDropsLast(s, answer) ==
    IF s.currentQuestionIndex < Len(s.quizQuestions.v) - 1
    THEN [s EXCEPT !.userAnswers = Append(@, answer), !.currentQuestionIndex = @ + 1]
    ELSE [s EXCEPT !.quizStatus = "finished"]

\* handleAnswerSelect: the answer is recorded, then the next question or
\* the end of the quiz (currentQuestionIndex counts from 0)
handleAnswerSelect(s, answer) ==
    IF s.currentQuestionIndex < Len(s.quizQuestions.v) - 1
    THEN [s EXCEPT !.userAnswers = Append(@, answer), !.currentQuestionIndex = @ + 1]
    ELSE [s EXCEPT !.userAnswers = Append(@, answer), !.quizStatus = "finished"]

\* handleResetQuiz
handleResetQuiz(s) ==
    [s EXCEPT !.quizStatus = "idle", !.quizQuestions = Arr(<<>>),
              !.currentQuestionIndex = 0, !.userAnswers = <<>>, !.quizError = Null]

\* a faulty variant: every answer given counts as correct
handleExportResultsCountsAll(s) ==
    LET questions == s.quizQuestions.v
        answerAt(i) == IF i <= Len(s.userAnswers) THEN s.userAnswers[i] ELSE Undefined
        isCorrect(i) == answerAt(i) = Get(questions[i], "correctAnswer")
        score == Len(s.userAnswers)
        block(i) ==
            <<[line |-> "question", number |-> i, text |-> Get(questions[i], "question")],
              [line |-> "yourAnswer", answer |-> answerAt(i),
               mark |-> IF isCorrect(i) THEN "correct" ELSE "wrong"]>>
            \o (IF isCorrect(i) THEN <<>>
                ELSE <<[line |-> "correctAnswer",
                        answer |-> Get(questions[i], "correctAnswer")]>>)
            \o <<[line |-> "blank"]>>
        blocks[i \in 0..Len(questions)] ==
            IF i = 0 THEN <<>> ELSE blocks[i - 1] \o <<[line |-> "rule"]>> \o block(i)
    IN  IF Len(s.userAnswers) > Len(questions) THEN Throw(Err("TypeError"))
        ELSE Return([name |-> "quiz_results.txt", type |-> "text/plain;charset=utf-8",
                     content |-> <<[line |-> "title"], [line |-> "rule"],
                                   [line |-> "score", score |-> score,
                                    total |-> Len(questions)],
                                   [line |-> "blank"]>>
                                 \o blocks[Len(questions)]])

\* handleExportResults: the file handed to downloadFile, its content line
\* by line, or the TypeError of reading correctAnswer of a question that
\* does not exist
handleExportResults(s) ==
    LET questions == s.quizQuestions.v
        answerAt(i) == IF i <= Len(s.userAnswers) THEN s.userAnswers[i] ELSE Undefined
        isCorrect(i) == answerAt(i) = Get(questions[i], "correctAnswer")
        score == Cardinality({i \in 1..Len(s.userAnswers) : isCorrect(i)})
        block(i) ==
            <<[line |-> "question", number |-> i, text |-> Get(questions[i], "question")],
              [line |-> "yourAnswer", answer |-> answerAt(i),
               mark |-> IF isCorrect(i) THEN "correct" ELSE "wrong"]>>
            \o (IF isCorrect(i) THEN <<>>
                ELSE <<[line |-> "correctAnswer",
                        answer |-> Get(questions[i], "correctAnswer")]>>)
            \o <<[line |-> "blank"]>>
        blocks[i \in 0..Len(questions)] ==
            IF i = 0 THEN <<>> ELSE blocks[i - 1] \o <<[line |-> "rule"]>> \o block(i)
    IN  IF Len(s.userAnswers) > Len(questions) THEN Throw(Err("TypeError"))
        ELSE Return([name |-> "quiz_results.txt", type |-> "text/plain;charset=utf-8",
                     content |-> <<[line |-> "title"], [line |-> "rule"],
                                   [line |-> "score", score |-> score,
                                    total |-> Len(questions)],
                                   [line |-> "blank"]>>
                                 \o blocks[Len(questions)]])

\* handleGenerateOptimizations up to its await
handleGenerateOptimizations(s) ==
    [sig |-> [s EXCEPT !.optimizationStatus = "generating",
                       !.optimizationSuggestions = Arr(<<>>),
                       !.optimizationError = Null],
     optimization |-> [pc |-> "optimization",
                       sent |-> Issue(s, <<>>, Request("optimization", s.documentSource, "")),
                       settled |-> "pending"]]

\* handleGenerateOptimizations after its await
AfterOptimization(s, optimization, result) ==
    [sig |-> IF result.ok
             THEN [s EXCEPT !.optimizationSuggestions = result.v,
                            !.optimizationStatus = "success"]
             ELSE [s EXCEPT !.optimizationError = result.e,
                            !.optimizationStatus = "error"],
     optimization |-> [optimization EXCEPT
                          !.pc = "done",
                          !.settled = Settle(result, OptimizationsCatches(result.e))]]


\* ------------------------------------------------------------ persistence
\* what the effect of initializeApp writes under APP_STATE_KEY
SavedState(s) ==
    [userInput |-> s.userInput, pdfText |-> s.pdfText, pdfFileName |-> s.pdfFileName,
     flowchartSvg |-> s.flowchartSvg, summaryData |-> s.summaryData,
     tableOfContents |-> s.tableOfContents, documentSource |-> s.documentSource,
     topQuestions |-> s.topQuestions, chatHistory |-> s.chatHistory,
     quizQuestions |-> s.quizQuestions,
     optimizationSuggestions |-> s.optimizationSuggestions]

NoSavedState == [t |-> "null"]

\* loadStateFromLocalStorage
loadStateFromLocalStorage(s, saved) ==
    IF saved = NoSavedState THEN s
    ELSE LET s1 == [s EXCEPT !.userInput = saved.userInput, !.pdfText = saved.pdfText,
                             !.pdfFileName = saved.pdfFileName,
                             !.flowchartSvg = saved.flowchartSvg,
                             !.summaryData = saved.summaryData,
                             !.tableOfContents = saved.tableOfContents,
                             !.documentSource = saved.documentSource,
                             !.topQuestions = saved.topQuestions,
                             !.chatHistory = saved.chatHistory,
                             !.quizQuestions = saved.quizQuestions,
                             !.optimizationSuggestions = saved.optimizationSuggestions]
         IN  IF s1.documentSource = <<>> THEN s1
             ELSE [s1 EXCEPT !.status = IF Truthy(s1.summaryData) THEN "success" ELSE "idle",
                             !.qaStatus = IF Len(s1.topQuestions.v) > 0
                                          THEN "success" ELSE "idle",
                             !.quizStatus = "idle",
                             !.optimizationStatus =
                                 IF Len(s1.optimizationSuggestions.v) > 0
                                 THEN "success" ELSE "idle"]

\* initializeApp up to the first render: the signals, and whether
\* handleTrySample has left a timer pending
initializeApp(configured, saved) ==
    LET loaded == loadStateFromLocalStorage(InitialSignals(configured), saved)
    IN  IF loaded.documentSource = <<>>
        THEN [sig |-> handleTrySample(loaded), timers |-> 1]
        ELSE [sig |-> loaded, timers |-> 0]

\* A session an earlier visit has left in localStorage: a PDF was uploaded,
\* its table of contents extracted and its analysis completed.
SessionPdfRead(out) ==
    AfterPdfRead(out.sig, out.upload, Return(PdfWithText.pages))

SessionToc(out) ==
    AfterToc(out.sig, out.upload, extractTocFromText(Return(JsonTocList)))

SessionAnalysis(out) ==
    AfterAnalysis(out.sig, out.run, Return(JsonPlanWithSteps))

SessionDiagram(out) ==
    AfterDiagram(out.sig, out.run, Return(SvgMarkup))

SessionQuestions(out) ==
    AfterQuestions(out.sig, out.run, Return(JsonQaList))

UploadedSession ==
    SavedState(
      SessionQuestions(
        SessionDiagram(
          SessionAnalysis(
            SessionToc(
              SessionPdfRead(
                handleFileChange(InitialSignals(TRUE), PdfWithText)))))).sig)

SignalsAre(n) ==
    /\ userInput = n.userInput
    /\ pdfText = n.pdfText
    /\ pdfFileName = n.pdfFileName
    /\ documentSource = n.documentSource
    /\ tableOfContents = n.tableOfContents
    /\ status = n.status
    /\ loadingMessage = n.loadingMessage
    /\ errorMessage = n.errorMessage
    /\ summaryData = n.summaryData
    /\ flowchartSvg = n.flowchartSvg
    /\ qaStatus = n.qaStatus
    /\ topQuestions = n.topQuestions
    /\ optimizationStatus = n.optimizationStatus
    /\ optimizationSuggestions = n.optimizationSuggestions
    /\ optimizationError = n.optimizationError
    /\ quizStatus = n.quizStatus
    /\ quizQuestions = n.quizQuestions
    /\ currentQuestionIndex = n.currentQuestionIndex
    /\ userAnswers = n.userAnswers
    /\ quizError = n.quizError
    /\ chatHistory = n.chatHistory
    /\ chatInput = n.chatInput
    /\ isChatting = n.isChatting
    /\ isNodeQuery = n.isNodeQuery

\* ------------------------------------------------- the environment's inputs
\* the answers to the table-of-contents request and to the quiz request
TocAnswers ==
    {HttpQuota, HttpFailure, HttpOk(JsonTocList), HttpOk(JsonEmptyArray),
     HttpOk(JsonEmptyObject), HttpOk(NoJsonText)}
QuizAnswers ==
    {HttpFailure, HttpOk(JsonQuizList), HttpOk(JsonEmptyArray), HttpOk(JsonEmptyObject),
     HttpOk(NoJsonText)}

\* -------------------------------------------------------------- scheduling
InFlight(handlers) == { i \in 1..Len(handlers) : handlers[i].pc # "done" }

\* A call of callSecureApi with no worker URL rejects without a network
\* round trip: the continuation is a microtask and runs before any other
\* event.
MicrotaskPending ==
    /\ ~workerUrlConfigured
    /\ \/ InFlight(runs) # {}
       \/ \E i \in InFlight(uploads) : uploads[i].pc \in {"ocr", "toc"}
       \/ InFlight(chats) # {}
       \/ InFlight(quizzes) # {}
       \/ InFlight(optimizations) # {}

\* GenerationView: what the rendered controls allow
isGenerating == status \in {"parsing", "generating"}
isButtonDisabled == isGenerating \/ (Trim(userInput) = <<>> /\ Trim(pdfText) = <<>>)
isClearDisabled ==
    \/ isGenerating
    \/ /\ Trim(userInput) = <<>>
       /\ Trim(flowchartSvg) = <<>>
       /\ ~Truthy(summaryData)
       /\ errorMessage = NoMessage

\* the handler invocations so far; every upload in flight will start one
\* run when it succeeds
Invocations ==
    Len(runs) + Len(uploads) + Cardinality(InFlight(uploads))
      + Len(chats) + Len(quizzes) + Len(optimizations)

handlerVars ==
    <<runs, uploads, chats, quizzes, optimizations, sampleTimers, nodeTimers, downloaded>>

\* ------------------------------------------------------------------ actions
\* The page has loaded: initializeApp has run on what localStorage holds.  A
\* session with results can only have been saved with a working proxy.
Init ==
    /\ \E configured \in BOOLEAN :
       \E saved \in {NoSavedState} \cup (IF configured THEN {UploadedSession} ELSE {}) :
       \E app \in {initializeApp(configured, saved)} :
          /\ workerUrlConfigured = configured
          /\ SignalsAre(app.sig)
          /\ sampleTimers = app.timers
    /\ nodeTimers = 0
    /\ downloaded = Null
    /\ runs = <<>>
    /\ uploads = <<>>
    /\ chats = <<>>
    /\ quizzes = <<>>
    /\ optimizations = <<>>

\* the textarea of the generation view
SetUserInput ==
    /\ ~MicrotaskPending
    /\ ~isGenerating
    /\ \E text \in {<<>>, <<" ">>, <<"procedure">>} \ {userInput} :
         userInput' = text
    /\ UNCHANGED <<pdfText, pdfFileName, documentSource, tableOfContents, status,
                   loadingMessage, errorMessage, summaryData, flowchartSvg, qaStatus,
                   topQuestions, optimizationStatus, optimizationSuggestions,
                   optimizationError, quizStatus, quizQuestions, currentQuestionIndex,
                   userAnswers, quizError, chatHistory, chatInput, isChatting,
                   isNodeQuery>>
    /\ UNCHANGED <<workerUrlConfigured, handlerVars>>

\* the generate button
ClickGenerate ==
    /\ ~MicrotaskPending
    /\ ~isButtonDisabled
    /\ Invocations < MaxInvocations
    /\ \E gen \in {handleGenerate(Signals, "")} :
           /\ SetSignals(gen.sig)
           /\ runs' = IF gen.started THEN Append(runs, gen.run) ELSE runs
    /\ UNCHANGED <<workerUrlConfigured, uploads, chats, quizzes, optimizations, sampleTimers, nodeTimers, downloaded>>

\* handleTocClick on an entry of the rendered table of contents
HandleTocClick ==
    /\ ~MicrotaskPending
    /\ Truthy(tableOfContents)
    /\ Invocations < MaxInvocations
    /\ \E i \in 1..Len(tableOfContents.v) :
         \E gen \in {handleTocClick(Signals, tableOfContents.v[i])} :
             /\ SetSignals(gen.sig)
             /\ runs' = IF gen.started THEN Append(runs, gen.run) ELSE runs
    /\ UNCHANGED <<workerUrlConfigured, uploads, chats, quizzes, optimizations, sampleTimers, nodeTimers, downloaded>>

\* a run resumes after an await with the oracle's answer
Resume(r, out) ==
    /\ SetSignals(out.sig)
    /\ runs' = [runs EXCEPT ![r] = out.run]
    /\ UNCHANGED <<workerUrlConfigured, uploads, chats, quizzes, optimizations, sampleTimers, nodeTimers, downloaded>>

AnalysisResponse ==
    \E r \in InFlight(runs) :
    \E net \in {HttpQuota, HttpFailure, HttpOk(JsonPlanWithSteps),
                HttpOk(Fenced(JsonPlanNoSteps)), HttpOk(InProse(JsonEmptyObject)),
                HttpOk(NoJsonText)} :
        /\ runs[r].pc = "analysis"
        /\ \E out \in {AfterAnalysis(Signals, runs[r],
                                       callSecureApi(workerUrlConfigured, net))} :
              Resume(r, out)

DiagramResponse ==
    \E r \in InFlight(runs) :
    \E net \in {HttpQuota, HttpFailure, HttpOk(SvgInProse), HttpOk(NoJsonText),
                HttpOk(<<"Here", " ", "<svg", "<svg", "g", "</svg>", "</svg>", " ", "Thanks">>)} :
        /\ runs[r].pc = "diagram"
        /\ \E out \in {AfterDiagram(Signals, runs[r],
                                      callSecureApi(workerUrlConfigured, net))} :
              Resume(r, out)

QuestionsResponse ==
    \E r \in InFlight(runs) :
    \E net \in {HttpQuota, HttpOk(Fenced(JsonQaList)),
                HttpOk(InProse(JsonEmptyObject)), HttpOk(NoJsonText)} :
        /\ runs[r].pc = "questions"
        /\ \E out \in {AfterQuestions(Signals, runs[r],
                                        callSecureApi(workerUrlConfigured, net))} :
              Resume(r, out)

HandleClearResults ==
    /\ ~MicrotaskPending
    /\ ~isClearDisabled
    /\ \E out \in {handleClearResults(Signals)} : SetSignals(out)
    /\ UNCHANGED <<workerUrlConfigured, handlerVars>>

HandleTrySample ==
    /\ ~MicrotaskPending
    /\ ~isGenerating
    /\ sampleTimers < MaxSampleTimers
    /\ \E out \in {handleTrySample(Signals)} : SetSignals(out)
    /\ sampleTimers' = sampleTimers + 1
    /\ UNCHANGED <<workerUrlConfigured, runs, uploads, chats, quizzes, optimizations,
                   nodeTimers, downloaded>>

SampleTimerFires ==
    /\ ~MicrotaskPending
    /\ sampleTimers > 0
    /\ \E out \in {SampleTimeout(Signals)} : SetSignals(out)
    /\ sampleTimers' = sampleTimers - 1
    /\ UNCHANGED <<workerUrlConfigured, runs, uploads, chats, quizzes, optimizations,
                   nodeTimers, downloaded>>

\* the file input of the generation view
HandleFileChange ==
    /\ ~MicrotaskPending
    /\ ~isGenerating
    /\ Invocations + 1 < MaxInvocations
    /\ \E file \in UploadFiles :
         \E out \in {handleFileChange(Signals, file)} :
             /\ SetSignals(out.sig)
             /\ uploads' = Append(uploads, out.upload)
    /\ UNCHANGED <<workerUrlConfigured, runs, chats, quizzes, optimizations, sampleTimers, nodeTimers, downloaded>>

\* an upload resumes after an await
ResumeUpload(u, out) ==
    /\ SetSignals(out.sig)
    /\ uploads' = [uploads EXCEPT ![u] = out.upload]
    /\ runs' = IF out.started THEN Append(runs, out.run) ELSE runs
    /\ UNCHANGED <<workerUrlConfigured, chats, quizzes, optimizations, sampleTimers, nodeTimers, downloaded>>

\* pdf.js has decoded the file, or failed to
PdfRead ==
    /\ ~MicrotaskPending
    /\ \E u \in InFlight(uploads) :
         /\ uploads[u].pc = "readPdf"
         /\ \E decoded \in {Return(uploads[u].file.pages), Throw(Err("Invalid PDF structure"))} :
              \E out \in {AfterPdfRead(Signals, uploads[u], decoded)} :
                  ResumeUpload(u, out)

\* the FileReader of fileToGenerativePart has finished, or failed
ImageRead ==
    /\ ~MicrotaskPending
    /\ \E u \in InFlight(uploads) :
         /\ uploads[u].pc = "readImage"
         /\ \E part \in {Return(<<"base64">>), Throw([t |-> "ProgressEvent"])} :
              \E out \in {AfterImageRead(Signals, uploads[u], part)} :
                  ResumeUpload(u, out)

OcrResponse ==
    \E u \in InFlight(uploads) :
    \E net \in {HttpFailure, HttpOk(<<"scanned", "\n">>), HttpOk(<<" ">>)} :
        /\ uploads[u].pc = "ocr"
        /\ \E out \in {AfterOcr(Signals, uploads[u],
                                  callSecureApi(workerUrlConfigured, net))} :
              ResumeUpload(u, out)

TocResponse ==
    \E u \in InFlight(uploads) : \E net \in TocAnswers :
        /\ uploads[u].pc = "toc"
        /\ \E out \in {AfterToc(Signals, uploads[u],
                          extractTocFromText(callSecureApi(workerUrlConfigured, net)))} :
              ResumeUpload(u, out)

\* the textarea of the chat view
SetChatInput ==
    /\ ~MicrotaskPending
    /\ documentSource # <<>>
    /\ ~isChatting
    /\ \E text \in {<<>>, <<"question">>} \ {chatInput} :
         chatInput' = text
    /\ UNCHANGED <<userInput, pdfText, pdfFileName, documentSource, tableOfContents,
                   status, loadingMessage, errorMessage, summaryData, flowchartSvg,
                   qaStatus, topQuestions, optimizationStatus, optimizationSuggestions,
                   optimizationError, quizStatus, quizQuestions, currentQuestionIndex,
                   userAnswers, quizError, chatHistory, isChatting, isNodeQuery>>
    /\ UNCHANGED <<workerUrlConfigured, handlerVars>>

\* the chat form is submitted (button or Enter key)
SendMessage ==
    /\ ~MicrotaskPending
    /\ documentSource # <<>>
    /\ ~isChatting
    /\ Invocations < MaxInvocations
    /\ \E out \in {handleSendMessage(Signals)} :
           /\ SetSignals(out.sig)
           /\ chats' = IF out.started THEN Append(chats, out.chat) ELSE chats
    /\ UNCHANGED <<workerUrlConfigured, runs, uploads, quizzes, optimizations, sampleTimers, nodeTimers, downloaded>>

ChatResponse ==
    \E c \in InFlight(chats) :
    \E net \in {HttpFailure, HttpOk(<<"answer">>)} :
        \E out \in {AfterChat(Signals, chats[c], callSecureApi(workerUrlConfigured, net))} :
            /\ SetSignals(out.sig)
            /\ chats' = [chats EXCEPT ![c] = out.chat]
            /\ UNCHANGED <<workerUrlConfigured, runs, uploads, quizzes, optimizations,
                           sampleTimers, nodeTimers, downloaded>>

\* the start button of the quiz view
StartQuiz ==
    /\ ~MicrotaskPending
    /\ documentSource # <<>>
    /\ quizStatus \notin {"error", "generating", "finished"}
    /\ ~(quizStatus = "active" /\ Len(quizQuestions.v) > 0)
    /\ Invocations < MaxInvocations
    /\ \E out \in {handleStartQuiz(Signals)} :
           /\ SetSignals(out.sig)
           /\ quizzes' = IF out.started THEN Append(quizzes, out.quiz) ELSE quizzes
    /\ UNCHANGED <<workerUrlConfigured, runs, uploads, chats, optimizations, sampleTimers, nodeTimers, downloaded>>

QuizResponse ==
    \E q \in InFlight(quizzes) : \E net \in QuizAnswers :
        \E out \in {AfterQuiz(Signals, quizzes[q],
                     NonEmptyArrayStage(callSecureApi(workerUrlConfigured, net),
                                        "no valid questions"))} :
            /\ SetSignals(out.sig)
            /\ quizzes' = [quizzes EXCEPT ![q] = out.quiz]
            /\ UNCHANGED <<workerUrlConfigured, runs, uploads, chats, optimizations,
                           sampleTimers, nodeTimers, downloaded>>

\* an option button of the question shown
AnswerSelect ==
    /\ ~MicrotaskPending
    /\ documentSource # <<>>
    /\ quizStatus = "active"
    /\ Len(quizQuestions.v) > 0
    /\ \E option \in {Get(quizQuestions.v[currentQuestionIndex + 1], "options").v[i] :
                        i \in 1..Len(Get(quizQuestions.v[currentQuestionIndex + 1],
                                         "options").v)} :
           \E out \in {handleAnswerSelect(Signals, option)} : SetSignals(out)
    /\ UNCHANGED <<workerUrlConfigured, handlerVars>>

\* the retry button of the failed quiz and the restart button of the
\* finished one
ResetQuiz ==
    /\ ~MicrotaskPending
    /\ documentSource # <<>>
    /\ quizStatus \in {"error", "finished"}
    /\ \E out \in {handleResetQuiz(Signals)} : SetSignals(out)
    /\ UNCHANGED <<workerUrlConfigured, handlerVars>>

\* the export button of the finished quiz
ExportResults ==
    /\ ~MicrotaskPending
    /\ documentSource # <<>>
    /\ quizStatus = "finished"
    /\ \E out \in {handleExportResults(Signals)} :
           downloaded' = IF out.ok THEN out.v ELSE downloaded
    /\ UNCHANGED <<workerUrlConfigured, signalVars, runs, uploads, chats, quizzes,
                   optimizations, sampleTimers,
                   nodeTimers>>

\* the buttons of the optimization view
GenerateOptimizations ==
    /\ ~MicrotaskPending
    /\ status = "success"
    /\ optimizationStatus # "generating"
    /\ Invocations < MaxInvocations
    /\ \E out \in {handleGenerateOptimizations(Signals)} :
           /\ SetSignals(out.sig)
           /\ optimizations' = Append(optimizations, out.optimization)
    /\ UNCHANGED <<workerUrlConfigured, runs, uploads, chats, quizzes, sampleTimers, nodeTimers, downloaded>>

OptimizationResponse ==
    \E o \in InFlight(optimizations) :
    \E net \in {HttpQuota, HttpOk(InProse(JsonSuggestionList)), HttpOk(NoJsonText)} :
        \E out \in {AfterOptimization(Signals, optimizations[o],
                     NonEmptyArrayStage(callSecureApi(workerUrlConfigured, net),
                                        "no valid suggestions"))} :
            /\ SetSignals(out.sig)
            /\ optimizations' = [optimizations EXCEPT ![o] = out.optimization]
            /\ UNCHANGED <<workerUrlConfigured, runs, uploads, chats, quizzes,
                           sampleTimers, nodeTimers, downloaded>>

Next ==
    \/ SetUserInput
    \/ ClickGenerate
    \/ HandleTocClick
    \/ AnalysisResponse
    \/ DiagramResponse
    \/ QuestionsResponse
    \/ HandleClearResults
    \/ HandleTrySample
    \/ SampleTimerFires
    \/ HandleFileChange
    \/ PdfRead
    \/ ImageRead
    \/ OcrResponse
    \/ TocResponse
    \/ SetChatInput
    \/ SendMessage
    \/ ChatResponse
    \/ StartQuiz
    \/ QuizResponse
    \/ AnswerSelect
    \/ ResetQuiz
    \/ ExportResults
    \/ GenerateOptimizations
    \/ OptimizationResponse

Spec == Init /\ [][Next]_vars


\* ------------------------------------------------ the extraction functions
\* The file input again, with the PDFs that exercise extractTextFromPdf:
\* every page of up to two text items (Arabic, Latin, mixed, digits, blank
\* and empty strings; baselines that round together or apart), the pages of
\* three Latin items, and the documents of two short pages.
HandlePdfUpload ==
    /\ ~MicrotaskPending
    /\ ~isGenerating
    /\ Invocations + 1 < MaxInvocations
    /\ LET strs  == {<<"alef", "ba">>, <<"a", "b">>, <<"alef", "a">>, <<"1", "2">>,
                     <<"alef", "1">>, <<" ">>, <<>>}
           ys    == {398, 401, 402, 440}
           items == {TextItem(str, x, y) : str \in strs, x \in {8, 40}, y \in ys}
           three == {TextItem(<<"a", "b">>, 8, y) : y \in ys}
           short == {<<>>, <<TextItem(<<" ">>, 8, 400)>>, <<TextItem(<<"a", "b">>, 8, 400)>>,
                     <<TextItem(<<"alef", "ba">>, 8, 400)>>}
           first  == {[TextItem(<<"1">>, 8, 400) EXCEPT !.width = w, !.height = h] :
                         w \in {6, 8}, h \in {4, 8}}
           second == {[TextItem(str, x, 400) EXCEPT !.height = h] :
                         str \in {<<"2">>, <<"2", " ">>}, x \in {16, 17, 18, 19},
                         h \in {4, 8}}
           third  == {TextItem(<<"a">>, x, y) : x \in {27, 40}, y \in {400, 440}}
           blank  == TextItem(<<" ">>, 12, 400)
           rows   == UNION {{<< <<a, b, c>> >>, << <<c, a, b>> >>, << <<b, a>> >>,
                             << <<a, blank, b>> >>} :
                               a \in first, b \in second, c \in third}
           pages == {<< <<>> >>}
                      \cup rows
                      \cup {<< <<i>> >> : i \in items}
                      \cup {<< <<i, j>> >> : i \in items, j \in items}
                      \cup {<< <<i, j, k>> >> : i \in three, j \in three, k \in three}
                      \cup {<<p, q>> : p \in short, q \in short}
       IN  \E p \in pages :
             \E out \in {handleFileChange(Signals, [type |-> "application/pdf",
                                                   name |-> "doc.pdf", pages |-> p])} :
                 /\ SetSignals(out.sig)
                 /\ uploads' = Append(uploads, out.upload)
    /\ UNCHANGED <<workerUrlConfigured, runs, chats, quizzes, optimizations, sampleTimers, nodeTimers, downloaded>>

\* The analysis answer again, with the texts that exercise
\* extractJsonFromText: a payload (bare, fenced with or without the json tag,
\* in an unclosed fence, or none) between a prefix and a suffix of prose,
\* brackets or further fences.
AnalysisTextResponse ==
    \E r \in InFlight(runs) :
        /\ runs[r].pc = "analysis"
        /\ LET fence    == <<Backtick, Backtick, Backtick>>
               prefixes == {<<>>, <<"Here", " ">>, <<"[", "see", "]", " ">>, <<"nbsp">>,
                            fence \o <<"\n">> \o fence \o <<" ">>,
                            fence \o <<"py">> \o fence \o <<" ">>}
               payloads == {JsonPlanWithSteps, JsonPlanOutOfOrder, JsonQaList,
                            Fenced(JsonPlanWithSteps),
                            Fenced(JsonQaList), fence \o JsonEmptyObject \o fence,
                            Fenced(<<"null">>), Fenced(<<>>),
                            fence \o <<"json", "\n">> \o JsonPlanWithSteps,
                            NoJsonText, <<"null">>, <<"]", " ", "[">>, <<>>}
               suffixes == {<<>>, <<" ", "Thanks">>, <<" ", "}">>, <<"\n">> \o fence}
           IN  \E a \in prefixes : \E b \in payloads : \E c \in suffixes :
                 \E out \in {AfterAnalysis(Signals, runs[r],
                                 callSecureApi(workerUrlConfigured, HttpOk(a \o b \o c)))} :
                     Resume(r, out)

ExtractionSpec ==
    Init /\ [][\/ SampleTimerFires
               \/ HandlePdfUpload
               \/ PdfRead
               \/ ClickGenerate
               \/ AnalysisTextResponse]_vars


\* ------------------------------------------------------ overlapping uploads
\* The table of contents and the file input again, for the interleavings in
\* which a second handler empties the document while an upload awaits its
\* table of contents.  The entries of the table of contents are never
\* disabled; the file input is enabled whenever status is neither 'parsing'
\* nor 'generating', which a superseded run brings about when it ends
\* during the upload.
RaceTocClick ==
    /\ ~MicrotaskPending
    /\ Truthy(tableOfContents)
    /\ Len(runs) < MaxRaceRuns
    /\ \E i \in 1..Len(tableOfContents.v) :
         \E gen \in {handleTocClick(Signals, tableOfContents.v[i])} :
             /\ SetSignals(gen.sig)
             /\ runs' = IF gen.started THEN Append(runs, gen.run) ELSE runs
    /\ UNCHANGED <<workerUrlConfigured, uploads, chats, quizzes, optimizations, sampleTimers, nodeTimers, downloaded>>

RaceUpload ==
    /\ ~MicrotaskPending
    /\ ~isGenerating
    /\ Len(uploads) < MaxUploads
    /\ \E out \in {handleFileChange(Signals, PdfWithText)} :
         /\ SetSignals(out.sig)
         /\ uploads' = Append(uploads, out.upload)
    /\ UNCHANGED <<workerUrlConfigured, runs, chats, quizzes, optimizations, sampleTimers, nodeTimers, downloaded>>

RaceSpec ==
    Init /\ [][\/ RaceTocClick
               \/ AnalysisResponse
               \/ RaceUpload
               \/ PdfRead
               \/ TocResponse]_vars

\* ------------------------------------------------------ answered requests
\* The analysis runs under the assumption that every oracle call resolves
\* or rejects: fetch settles each request, so the answer a run awaits
\* eventually arrives.
LiveSpec ==
    /\ Init
    /\ [][\/ ClickGenerate
          \/ HandleTocClick
          \/ AnalysisResponse
          \/ DiagramResponse
          \/ QuestionsResponse]_vars
    /\ WF_vars(AnalysisResponse)
    /\ WF_vars(DiagramResponse)
    /\ WF_vars(QuestionsResponse)

\* ------------------------------------------------------ flowchart node chat
MaxNodeTimers == 1

\* startChatWithNode up to its setTimeout; scheduled is FALSE on the early
\* return
startChatWithNode(s, nodeText) ==
    IF nodeText = <<>> \/ s.documentSource = <<>> THEN [scheduled |-> FALSE, sig |-> s]
    ELSE [scheduled |-> TRUE, sig |-> [s EXCEPT !.isNodeQuery = TRUE]]

\* handleChartClick on a node of the diagram shown, whose text is "step"
ChartNodeClick ==
    /\ ~MicrotaskPending
    /\ status = "success"
    /\ flowchartSvg # <<>>
    /\ nodeTimers < MaxNodeTimers
    /\ \E out \in {startChatWithNode(Signals, <<"step">>)} :
           /\ SetSignals(out.sig)
           /\ nodeTimers' = IF out.scheduled THEN nodeTimers + 1 ELSE nodeTimers
    /\ UNCHANGED <<workerUrlConfigured, runs, uploads, chats, quizzes, optimizations,
                   sampleTimers, downloaded>>

\* the setTimeout callback of startChatWithNode: the message about the node
\* is put into chatInput and handleSendMessage is called
NodeTimerFires ==
    /\ ~MicrotaskPending
    /\ nodeTimers > 0
    /\ \E out \in {handleSendMessage([Signals EXCEPT
                                         !.chatInput = <<"explain", " ", "step">>])} :
           /\ out.started => Invocations < MaxInvocations
           /\ SetSignals(out.sig)
           /\ chats' = IF out.started THEN Append(chats, out.chat) ELSE chats
    /\ nodeTimers' = nodeTimers - 1
    /\ UNCHANGED <<workerUrlConfigured, runs, uploads, quizzes, optimizations,
                   sampleTimers, downloaded>>

\* the chat of a session whose diagram is clicked
NodeSpec ==
    Init /\ [][\/ ChartNodeClick
               \/ NodeTimerFires
               \/ SetChatInput
               \/ SendMessage
               \/ ChatResponse
               \/ HandleTrySample
               \/ SampleTimerFires]_vars

\* ------------------------------------------------------------------ claims
\* the kinds of the requests a handler has issued, oldest first
Kinds(sent) == [i \in 1..Len(sent) |-> sent[i].kind]

\* the signals an analysis run writes its results and its progress to
ResultSignals ==
    <<status, qaStatus, summaryData, flowchartSvg, topQuestions, errorMessage,
      loadingMessage>>

\* this step is the resumption of run r after one of its awaits
Resumes(r) == runs'[r] # runs[r]

\* this step ends run r in its catch block
Fails(r) == runs[r].pc # "done" /\ runs'[r].pc = "done" /\ runs'[r].qaData = Null

\* the answer that made run r fail in this step
FailedAnswer(r) == runs'[r].received[Len(runs'[r].received)]

\* C1: when a newer run has started while run r was awaiting an answer, the
\* resumption of r writes none of status, qaStatus, summaryData,
\* flowchartSvg, topQuestions, errorMessage and loadingMessage.
C1_StaleRunWritesNothing ==
    [][\A r \in 1..Len(runs) :
          (Resumes(r) /\ Len(runs) > r) => UNCHANGED ResultSignals]_vars

\* C2: when the question stage of a run fails after its analysis and diagram
\* stages succeeded, summaryData and flowchartSvg keep their values and the
\* run does not end as an overall error.
C2_QuestionFailureIsIsolated ==
    [][\A r \in 1..Len(runs) :
          (Fails(r) /\ runs[r].pc = "questions" /\ runs[r].svgMatch # <<>>)
             => /\ summaryData' = summaryData
                /\ flowchartSvg' = flowchartSvg
                /\ status' # "error"]_vars

\* C3: when the diagram stage of a run fails after a successful analysis
\* stage, the summary stays populated, the diagram slot is empty, a failure
\* is flagged, and the run still issues its question-stage request.
C3_DiagramFailureStillAsksQuestions ==
    [][\A r \in 1..Len(runs) :
          (Fails(r) /\ runs[r].pc = "diagram" /\ Len(runs) = 1)
             => /\ summaryData' = runs[r].plan
                /\ flowchartSvg' = <<>>
                /\ errorMessage' # NoMessage \/ status' = "error"
                /\ \E i \in 1..Len(runs'[r].sent) : runs'[r].sent[i].kind = "questions"]_vars

\* a validated plan without steps
HasEmptyPlan(run) == run.plan # Null /\ Len(Get(run.plan, "steps").v) = 0

\* C4: when the analysis stage yields a validated plan with no steps, the
\* run goes straight to the question stage with the diagram slot empty, and
\* no run with such a plan ever issues a diagram request.
C4_EmptyStepsSkipDiagram ==
    [][\A r \in 1..Len(runs) :
          /\ (runs[r].pc = "analysis" /\ HasEmptyPlan(runs'[r]))
                => /\ runs'[r].pc = "questions"
                   /\ Kinds(runs'[r].sent) = <<"analysis", "questions">>
                   /\ flowchartSvg' = <<>>
          /\ HasEmptyPlan(runs'[r])
                => \A i \in 1..Len(runs'[r].sent) : runs'[r].sent[i].kind # "diagram"]_vars

\* two runs in a row have had a plan without steps, issued no diagram
\* request, and ended in success with the diagram slot empty
C4_Witness ==
    /\ Len(runs) = 2
    /\ \A r \in 1..2 :
          /\ HasEmptyPlan(runs[r])
          /\ runs[r].pc = "done"
          /\ runs[r].qaData # Null
          /\ Kinds(runs[r].sent) = <<"analysis", "questions">>
    /\ status = "success"
    /\ qaStatus = "success"
    /\ flowchartSvg = <<>>

\* the answers the three stages accept: a plan with a summary and at least
\* one step, a text with an svg block, a JSON array
IsPlanWithSteps(parsed) ==
    /\ parsed.ok
    /\ parsed.v.t = "object"
    /\ Truthy(Get(parsed.v, "summary"))
    /\ IsArray(Get(parsed.v, "steps"))
    /\ Len(Get(parsed.v, "steps").v) >= 1
ValidPlanAnswer(response) == response.ok /\ IsPlanWithSteps(ParseJsonFromText(response.v))
ValidSvgAnswer(response) == response.ok /\ SvgMatch(Trim(response.v)).found
IsJsonArray(parsed) == parsed.ok /\ IsArray(parsed.v)
ValidQaAnswer(response) == response.ok /\ IsJsonArray(ParseJsonFromText(response.v))
AllAnswersValid(received) ==
    /\ Len(received) = 3
    /\ ValidPlanAnswer(received[1])
    /\ ValidSvgAnswer(received[2])
    /\ ValidQaAnswer(received[3])

\* C5: when the three answers of a single run (no other run in the session)
\* are valid, the step that receives the third ends the run with status and
\* qaStatus 'success', summaryData the plan, flowchartSvg the extracted
\* markup, topQuestions the returned list, and no error message.
C5_ValidAnswersEndInSuccess ==
    [][\A r \in 1..Len(runs) :
          (Resumes(r) /\ Len(runs) = 1 /\ AllAnswersValid(runs'[r].received))
             => /\ runs'[r].pc = "done"
                /\ status' = "success"
                /\ qaStatus' = "success"
                /\ summaryData' = ParseJsonFromText(runs'[r].received[1].v).v
                /\ flowchartSvg' = SvgMatch(Trim(runs'[r].received[2].v)).match
                /\ topQuestions' = ParseJsonFromText(runs'[r].received[3].v).v
                /\ errorMessage' = NoMessage]_vars

\* a single run has received three valid answers and the session shows them
C5_Witness ==
    /\ Len(runs) = 1
    /\ AllAnswersValid(runs[1].received)
    /\ status = "success"
    /\ summaryData = PlanWithSteps
    /\ flowchartSvg = SvgMarkup
    /\ topQuestions = QaList

\* the stage discipline of one run
StageOrder(run) ==
    /\ Kinds(run.sent) \in {<<>>, <<"analysis">>, <<"analysis", "diagram">>,
                            <<"analysis", "questions">>,
                            <<"analysis", "diagram", "questions">>}
    /\ Len(run.sent) <= Len(run.received) + 1
    /\ \A i \in 1..Len(run.sent) : \A j \in 1..(i - 1) : run.received[j].ok
    /\ Len(run.sent) >= 2 => run.plan # Null
    /\ Kinds(run.sent) = <<"analysis", "diagram", "questions">> => run.svgMatch # <<>>
    /\ run.wrote \in {<<>>, <<"summaryData">>, <<"summaryData", "flowchartSvg">>,
                      <<"summaryData", "flowchartSvg", "topQuestions">>}
    /\ Len(run.wrote) >= 1 <=> run.plan # Null
    /\ Len(run.wrote) = 3 <=> run.qaData # Null

\* C6: a run issues its requests in the order analysis, diagram, questions,
\* each at most once and each only after the answers to all earlier ones
\* have been received and accepted, never has two requests outstanding, and
\* writes summaryData before flowchartSvg before topQuestions.
C6_StagesInOrder == \A r \in 1..Len(runs) : StageOrder(runs[r])

\* a run has been through all three stages
C6_Witness ==
    \E r \in 1..Len(runs) :
        /\ Kinds(runs[r].sent) = <<"analysis", "diagram", "questions">>
        /\ Len(runs[r].received) = 3
        /\ runs[r].wrote = <<"summaryData", "flowchartSvg", "topQuestions">>

\* no page of the PDF has an eligible text item
NoEligibleText(pages) ==
    \A p \in 1..Len(pages) : \A i \in 1..Len(pages[p]) : ~IsEligible(pages[p][i])

\* C7: when pdf.js has read a PDF none of whose pages has an eligible text
\* item, the upload ends with status 'error', pdfText and documentSource
\* empty, no table-of-contents request and no analysis run.
C7_BlankPdfIsRejected ==
    [][\A u \in 1..Len(uploads) :
          (/\ uploads[u].pc = "readPdf"
           /\ uploads'[u].pc # "readPdf"
           /\ NoEligibleText(uploads[u].file.pages))
             => /\ status' = "error"
                /\ pdfText' = <<>>
                /\ documentSource' = <<>>
                /\ uploads'[u].pc = "done"
                /\ uploads'[u].sent = <<>>
                /\ runs' = runs]_vars

\* a file that is neither a PDF nor an image
IsUnsupported(file) == file.type \notin {"application/pdf", "image/png"}

\* C8: an upload of a file that is neither a PDF nor an image ends at once
\* with status 'error' and an error message, starts no analysis run, and
\* never issues a request.
C8_UnsupportedTypeIsRejected ==
    [][\A u \in 1..Len(uploads') :
          IsUnsupported(uploads'[u].file)
             => /\ uploads'[u].pc = "done"
                /\ uploads'[u].sent = <<>>
                /\ u > Len(uploads)
                     => /\ status' = "error"
                        /\ errorMessage' = [kind |-> "error", text |-> "unsupported file type"]
                        /\ runs' = runs]_vars

\* a text file has been uploaded and rejected
C8_Witness ==
    \E u \in 1..Len(uploads) :
        /\ uploads[u].file = OtherFile
        /\ uploads[u].pc = "done"
        /\ status = "error"
        /\ errorMessage # NoMessage

IsQuotaFailure(response) == ~response.ok /\ IsQuotaError(response.e)

\* C9: a quota failure of the diagram stage puts the built-in sample diagram
\* in the diagram slot; a quota failure of another stage ends in status
\* 'error' without the sample diagram.
C9_QuotaFallbackAtDiagramStage ==
    [][\A r \in 1..Len(runs) :
          (Fails(r) /\ Len(runs) = 1 /\ IsQuotaFailure(FailedAnswer(r)))
             => IF runs[r].pc = "diagram"
                THEN flowchartSvg' = SampleSvgData
                ELSE status' = "error" /\ flowchartSvg' # SampleSvgData]_vars

\* no invocation of a handler has rejected
NoRejection ==
    /\ \A i \in 1..Len(runs) : runs[i].settled # "rejected"
    /\ \A i \in 1..Len(uploads) : uploads[i].settled # "rejected"
    /\ \A i \in 1..Len(chats) : chats[i].settled # "rejected"
    /\ \A i \in 1..Len(quizzes) : quizzes[i].settled # "rejected"
    /\ \A i \in 1..Len(optimizations) : optimizations[i].settled # "rejected"

RetryOf(n) == handleGenerate(n, "")
RetriedSignals(n) == SessionQuestions(SessionDiagram(SessionAnalysis(RetryOf(n)))).sig

\* C11: from the state in which an analysis run has just failed (at any
\* stage), invoking handleGenerate again on the same document and answering
\* its three requests validly gives status and qaStatus 'success', the
\* summary, the diagram and the questions of the new run, and no error
\* message.
C11_RetryAfterFailureSucceeds ==
    [][\A r \in 1..Len(runs) :
          (/\ Fails(r)
           /\ workerUrlConfigured
           /\ RetryOf(Signals').started
           /\ RetryOf(Signals').run.documentContext = runs[r].documentContext)
             => /\ status' = "error"
                /\ RetriedSignals(Signals').status = "success"
                /\ RetriedSignals(Signals').qaStatus = "success"
                /\ RetriedSignals(Signals').errorMessage = NoMessage
                /\ RetriedSignals(Signals').summaryData = PlanWithSteps
                /\ RetriedSignals(Signals').flowchartSvg = SvgMarkup
                /\ RetriedSignals(Signals').topQuestions = QaList
                /\ RetriedSignals(Signals').loadingMessage = ""]_vars

\* a first run has failed and a second run on the same document, with three
\* valid answers, has ended in success with no error message left
C11_Witness ==
    /\ Len(runs) = 2
    /\ runs[1].pc = "done" /\ runs[1].qaData = Null
    /\ runs[2].pc = "done" /\ AllAnswersValid(runs[2].received)
    /\ runs[2].documentContext = runs[1].documentContext
    /\ status = "success"
    /\ qaStatus = "success"
    /\ errorMessage = NoMessage
    /\ summaryData # Null /\ flowchartSvg # <<>> /\ Len(topQuestions.v) > 0

\* --- the text of a PDF, read back from the document text
\* the nearest integer of a coordinate given in quarters (halves go up)
Rounded(y) == CHOOSE n \in -1..200 : 4 * n - 2 <= y /\ y < 4 * n + 2

\* the item has a character that is not whitespace
HasText(item) == \E i \in 1..Len(item.str) : item.str[i] \notin {" ", "\n"}

\* a page marker starts at position i of the text
MarkerAt(t, i) ==
    /\ i + 7 <= Len(t)
    /\ t[i] = "[" /\ t[i + 1] = "Source:" /\ t[i + 2] = " " /\ t[i + 3] = "Page"
    /\ t[i + 4] = " " /\ t[i + 6] = "]" /\ t[i + 7] = "\n"
Markers(t) == { i \in 1..Len(t) : MarkerAt(t, i) }
NthMarker(t, k) ==
    CHOOSE i \in Markers(t) : Cardinality({ j \in Markers(t) : j < i }) = k - 1

\* what follows the k-th marker, up to the next marker or the end
PageBody(t, k) ==
    SubSeq(t, NthMarker(t, k) + 8,
           IF k < Cardinality(Markers(t)) THEN NthMarker(t, k + 1) - 1 ELSE Len(t))

\* the lines of a text, each without the newline that ends it
RECURSIVE LinesOf(_)
LinesOf(t) ==
    IF t = <<>> THEN <<>>
    ELSE IF \A i \in 1..Len(t) : t[i] # "\n" THEN <<t>>
    ELSE LET n == CHOOSE i \in 1..Len(t) : t[i] = "\n" /\ \A j \in 1..(i - 1) : t[j] # "\n"
         IN  <<SubSeq(t, 1, n - 1)>> \o LinesOf(SubSeq(t, n + 1, Len(t)))

Count(t, c) == Cardinality({ i \in 1..Len(t) : t[i] = c })
SameChars(a, b) == \A c \in {"alef", "ba", "a", "b", "1", "2"} : Count(a, c) = Count(b, c)

\* the characters of the items of a page that have text and whose baseline
\* rounds to a member of ns
RECURSIVE CharsOn(_, _)
CharsOn(items, ns) ==
    IF items = <<>> THEN <<>>
    ELSE (IF HasText(Head(items)) /\ Rounded(Head(items).y) \in ns
          THEN Head(items).str ELSE <<>>) \o CharsOn(Tail(items), ns)

Baselines(items) ==
    { Rounded(items[i].y) : i \in { j \in 1..Len(items) : HasText(items[j]) } }
NthLargest(S, k) == CHOOSE n \in S : Cardinality({ m \in S : m > n }) = k - 1

\* this step is upload u receiving the text of its PDF
PdfReadOk(u) == uploads[u].pc = "readPdf" /\ uploads'[u].pc = "toc"

\* C12: the lines of every page come in strictly decreasing order of rounded
\* baseline: the i-th line holds exactly the characters of the items whose
\* baseline rounds to the i-th largest rounded baseline of the page, and
\* nothing but empty lines follows.
C12_LinesByDecreasingBaseline ==
    [][\A u \in 1..Len(uploads) :
          PdfReadOk(u) =>
             \A k \in 1..Len(uploads[u].file.pages) :
                \A i \in 1..Len(LinesOf(PageBody(pdfText', k))) :
                   IF i <= Cardinality(Baselines(uploads[u].file.pages[k]))
                   THEN SameChars(LinesOf(PageBody(pdfText', k))[i],
                                  CharsOn(uploads[u].file.pages[k],
                                          {NthLargest(Baselines(uploads[u].file.pages[k]), i)}))
                   ELSE LinesOf(PageBody(pdfText', k))[i] = <<>>]_vars

\* a page whose first item lies below its second one has been read: the
\* second item's line comes first
C12_Witness ==
    \E u \in 1..Len(uploads) :
        /\ uploads[u].pc = "toc"
        /\ uploads[u].file.pages =
             << <<TextItem(<<"1", "2">>, 8, 398), TextItem(<<"a", "b">>, 8, 440)>> >>
        /\ pdfText = PageMarker(1) \o <<"a", "b", "\n", "1", "2", "\n", "\n">>

\* the text of s in reverse order
Mirror(s) == [i \in 1..Len(s) |-> s[Len(s) + 1 - i]]

\* what the glyph-reversal rule emits for the text of a run
Emitted(s) ==
    IF /\ \E i \in 1..Len(s) : s[i] \in {"alef", "ba"}
       /\ \A i \in 1..Len(s) : s[i] \notin {"a", "b"}
    THEN Mirror(s) ELSE s

\* e occurs in t as a contiguous part
Occurs(e, t) == \E p \in 1..(Len(t) - Len(e) + 1) : SubSeq(t, p, p + Len(e) - 1) = e

\* C13: the text of a run reaches the page text reversed exactly when it has
\* an Arabic character and no Latin letter, and unchanged otherwise; when
\* the run is alone on its page, its line is that text.
C13_ArabicOnlyRunsAreReversed ==
    [][\A u \in 1..Len(uploads) :
          PdfReadOk(u) =>
             \A k \in 1..Len(uploads[u].file.pages) :
                \A i \in 1..Len(uploads[u].file.pages[k]) :
                   HasText(uploads[u].file.pages[k][i]) =>
                      /\ Occurs(Emitted(uploads[u].file.pages[k][i].str),
                                PageBody(pdfText', k))
                      /\ Len(uploads[u].file.pages[k]) = 1 =>
                            LinesOf(PageBody(pdfText', k))[1]
                               = Emitted(uploads[u].file.pages[k][i].str)]_vars

\* a page with an Arabic-only run and a mixed run has been read: the first
\* is reversed, the second is not
C13_Witness ==
    \E u \in 1..Len(uploads) :
        /\ uploads[u].pc = "toc"
        /\ uploads[u].file.pages =
             << <<TextItem(<<"alef", "ba">>, 8, 401), TextItem(<<"alef", "a">>, 8, 440)>> >>
        /\ pdfText = PageMarker(1) \o <<"alef", "a", "\n", "ba", "alef", "\n", "\n">>

\* C14: a page with no run that has text (no run at all, or only empty and
\* whitespace-only runs) adds exactly two newlines after its marker.
C14_BlankPageYieldsTwoNewlines ==
    [][\A u \in 1..Len(uploads) :
          PdfReadOk(u) =>
             \A k \in 1..Len(uploads[u].file.pages) :
                (\A i \in 1..Len(uploads[u].file.pages[k]) :
                    ~HasText(uploads[u].file.pages[k][i]))
                   => PageBody(pdfText', k) = <<"\n", "\n">>]_vars

\* C15: the text of a PDF of P pages has exactly P page markers, the k-th
\* numbered k, the first at the start of the text, and what follows the k-th
\* marker up to the next one holds exactly the characters of page k.
C15_OneMarkerPerPageInOrder ==
    [][\A u \in 1..Len(uploads) :
          PdfReadOk(u) =>
             /\ Cardinality(Markers(pdfText')) = Len(uploads[u].file.pages)
             /\ Count(pdfText', "Source:") = Len(uploads[u].file.pages)
             /\ NthMarker(pdfText', 1) = 1
             /\ \A k \in 1..Len(uploads[u].file.pages) :
                   /\ pdfText'[NthMarker(pdfText', k) + 5] = ToString(k)
                   /\ SameChars(PageBody(pdfText', k),
                                CharsOn(uploads[u].file.pages[k],
                                        Baselines(uploads[u].file.pages[k])))]_vars

\* a PDF of two pages with different texts has been read
C15_Witness ==
    \E u \in 1..Len(uploads) :
        /\ uploads[u].pc = "toc"
        /\ Len(uploads[u].file.pages) = 2
        /\ pdfText = PageMarker(1) \o <<"a", "b", "\n", "\n">>
                       \o PageMarker(2) \o <<"ba", "alef", "\n", "\n">>

\* -- C16
\* the step at which a run receives the text of its analysis answer
AnalysisAnswered(r) ==
    /\ Len(runs[r].received) = 0
    /\ Len(runs'[r].received) = 1
    /\ runs'[r].received[1].ok

AnswerText(r) == runs'[r].received[1].v

\* positions where three backticks start, and a fenced block: an opening
\* fence with a closing fence somewhere after it
FenceStarts(t) ==
    {i \in 1..(Len(t) - 2) : t[i] = Backtick /\ t[i + 1] = Backtick /\ t[i + 2] = Backtick}

HasFencedBlock(t) == \E o \in FenceStarts(t) : \E c \in FenceStarts(t) : c >= o + 3

\* the interior of the first fenced block: what lies between the opening
\* fence (and its json tag, when it has one) and the next closing fence
FirstInterior(t) ==
    LET opens == {o \in FenceStarts(t) : \E c \in FenceStarts(t) : c >= o + 3}
        o     == CHOOSE x \in opens : \A y \in opens : x <= y
        from  == IF t[o + 3] = "json" THEN o + 4 ELSE o + 3
        c     == CHOOSE x \in FenceStarts(t) :
                    x >= from /\ \A y \in FenceStarts(t) : y >= from => x <= y
    IN  SubSeq(t, from, c - 1)

\* a text without its leading and trailing characters of the set blank
Without(t, blank) ==
    LET solid == {i \in 1..Len(t) : t[i] \notin blank}
    IN  IF solid = {} THEN <<>>
        ELSE SubSeq(t, CHOOSE i \in solid : \A j \in solid : i <= j,
                       CHOOSE i \in solid : \A j \in solid : i >= j)

\* a trimmed text
Stripped(t) == Without(t, {" ", "\n", "nbsp"})

\* bracket scanning: from the first opening bracket or brace to the last
\* closing one, or the whole text when that is no span
BracketSpan(t) ==
    LET opens  == {i \in 1..Len(t) : t[i] \in {"[", "{"}}
        closes == {i \in 1..Len(t) : t[i] \in {"]", "}"}}
        first  == CHOOSE i \in opens : \A j \in opens : i <= j
        last   == CHOOSE i \in closes : \A j \in closes : i >= j
    IN  IF opens = {} \/ closes = {} THEN t
        ELSE IF last > first THEN SubSeq(t, first, last)
        ELSE t

Serialisations ==
    {JsonPlanWithSteps, JsonPlanNoSteps, JsonEmptyObject, JsonQaList, JsonEmptyArray}

\* t is s between two stretches of prose that hold none of the characters
\* in barred
Wraps(t, s, barred) ==
    \E i \in 1..(Len(t) - Len(s) + 1) :
        /\ SubSeq(t, i, i + Len(s) - 1) = s
        /\ \A j \in (1..(i - 1)) \cup ((i + Len(s))..Len(t)) : t[j] \notin barred

\* JSON.parse accepts t: JSON allows spaces and line ends around a value
IsValidJson(t) == JSONParse(Without(t, {" ", "\n"})).ok

HasOpening(t) == \E i \in 1..Len(t) : t[i] \in {"[", "{"}

\* the run ends with the failure JSON.parse throws
EndsMalformed(r) ==
    /\ Fails(r)
    /\ status' = "error"
    /\ errorMessage' = [kind |-> "error", text |-> "Unexpected token"]
    /\ summaryData' = Null

\* extraction and parsing give back the value that s serialises
Recovers(t, s) ==
    /\ extractJsonFromText(t) = s
    /\ ParseJsonFromText(t).ok
    /\ ParseJsonFromText(t) = JSONParse(s)

\* C17 (as stated): a serialisation s of an array or object inside a
\* json-tagged fence, or surrounded by prose without brackets or braces, is
\* extracted and parsed back to its value; a text with no '[' or '{' that
\* is not valid JSON ends in a malformed-JSON failure.
C17_WrappedPayloadRecovered ==
    [][\A r \in 1..Len(runs) :
          AnalysisAnswered(r)
          => LET text == AnswerText(r)
             IN  /\ \A s \in Serialisations :
                       (text = Fenced(s) \/ Wraps(text, s, {"[", "]", "{", "}"}))
                       => Recovers(text, s)
                 /\ (~HasOpening(text) /\ ~IsValidJson(text)) => EndsMalformed(r)]_vars

\* C17 (amended): a serialisation s of an array or object that contains no
\* backticks, inside a json-tagged fence or surrounded by prose without
\* brackets, braces or backticks, is extracted and parsed back to its
\* value; a text with no '[' or '{' and no fenced block that is not valid
\* JSON once trimmed ends in a malformed-JSON failure.
C17_PayloadRecoveredFromPlainProse ==
    [][\A r \in 1..Len(runs) :
          AnalysisAnswered(r)
          => LET text == AnswerText(r)
             IN  /\ \A s \in Serialisations :
                       (text = Fenced(s) \/ Wraps(text, s, {"[", "]", "{", "}", Backtick}))
                       => /\ Recovers(text, s)
                          /\ s = JsonPlanWithSteps => summaryData' = PlanWithSteps
                 /\ (/\ ~HasOpening(text)
                     /\ ~HasFencedBlock(text)
                     /\ ~IsValidJson(Stripped(text)))
                    => EndsMalformed(r)]_vars

\* a plan between two stretches of prose has been received and is shown
C17_Witness ==
    /\ Len(runs) = 1
    /\ Len(runs[1].received) >= 1
    /\ runs[1].received[1].ok
    /\ runs[1].received[1].v = <<"Here", " ">> \o JsonPlanWithSteps \o <<" ", "Thanks">>
    /\ summaryData = PlanWithSteps

\* -- C18
\* the AnalysisPlan invariant: a string summary, steps numbered 1, 2, ... in
\* order, every step on a page of at least 1
IsAnalysisPlan(plan) ==
    /\ plan.t = "object"
    /\ Get(plan, "summary").t = "string"
    /\ Get(plan, "steps").t = "array"
    /\ \A i \in 1..Len(Get(plan, "steps").v) :
          LET step == Get(plan, "steps").v[i]
          IN  /\ Get(step, "stepNumber") = Num(i)
              /\ Get(step, "page").t = "number"
              /\ Get(step, "page").v >= 1

\* C18: whenever an analysis answer is accepted (summaryData is set from
\* it) the plan satisfies the AnalysisPlan invariant, and an answer that
\* parses to a value violating it is rejected as a schema mismatch instead
\* of being stored.
C18_AcceptedPlanIsAnalysisPlan ==
    [][\A r \in 1..Len(runs) :
          AnalysisAnswered(r)
          => LET parsed == ParseJsonFromText(AnswerText(r))
             IN  /\ runs'[r].plan # Null
                    => summaryData' = runs'[r].plan /\ IsAnalysisPlan(summaryData')
                 /\ (parsed.ok /\ ~IsAnalysisPlan(parsed.v))
                    => /\ Fails(r)
                       /\ errorMessage' = [kind |-> "error", text |-> "plan failed validation"]
                       /\ summaryData' = Null]_vars

\* -- C19
\* the question indices answered correctly
CorrectlyAnswered ==
    {i \in 1..Len(quizQuestions.v) :
        i <= Len(userAnswers) /\ userAnswers[i] = quizQuestions.v[i].correctAnswer}

\* the lines of the block of question i in a scorecard: from its question
\* line up to the blank line that closes it
BlockOf(content, i) ==
    LET from == CHOOSE k \in 1..Len(content) :
                    content[k].line = "question" /\ content[k].number = i
        to   == CHOOSE k \in from..Len(content) :
                    content[k].line = "blank"
                    /\ \A j \in from..(k - 1) : content[j].line # "blank"
    IN  SubSeq(content, from, to - 1)

\* C19: the exported scorecard reports as score the number of questions
\* whose recorded answer equals the correct answer, out of the number of
\* questions; the block of each question shows the user's answer with a
\* correctness marker, and the correct answer exactly when the user's answer
\* was wrong; exporting changes no state.
C19_ScorecardCountsCorrectAnswers ==
    [][downloaded' # downloaded
       => LET content == downloaded'.content
              total   == Len(quizQuestions.v)
              scores  == {k \in 1..Len(content) : content[k].line = "score"}
          IN  /\ downloaded'.name = "quiz_results.txt"
              /\ Cardinality(scores) = 1
              /\ \A k \in scores :
                    /\ content[k].score = Cardinality(CorrectlyAnswered)
                    /\ content[k].total = total
                    /\ 0 <= content[k].score
                    /\ content[k].score <= content[k].total
              /\ {content[k].number : k \in {j \in 1..Len(content) :
                                               content[j].line = "question"}} = 1..total
              /\ Cardinality({j \in 1..Len(content) : content[j].line = "question"}) = total
              /\ \A i \in 1..total :
                    LET block == BlockOf(content, i)
                    IN  /\ block[1].text = quizQuestions.v[i].question
                        /\ block[2] = [line |-> "yourAnswer", answer |-> userAnswers[i],
                                       mark |-> IF i \in CorrectlyAnswered
                                                THEN "correct" ELSE "wrong"]
                        /\ IF i \in CorrectlyAnswered
                           THEN Len(block) = 2
                           ELSE /\ Len(block) = 3
                                /\ block[3] = [line |-> "correctAnswer",
                                               answer |-> quizQuestions.v[i].correctAnswer]
              /\ Signals' = Signals
              /\ UNCHANGED <<runs, uploads, chats, quizzes, optimizations, sampleTimers>>]_vars

\* a scorecard of a quiz with one right and one wrong answer has been exported
C19_Witness ==
    /\ downloaded # Null
    /\ quizStatus = "finished"
    /\ Cardinality(CorrectlyAnswered) = 1
    /\ Len(quizQuestions.v) = 2
    /\ \E k \in 1..Len(downloaded.content) :
          downloaded.content[k] = [line |-> "score", score |-> 1, total |-> 2]

\* -- C20
\* C20: qaStatus becomes 'error' only at the failure of a question stage; a
\* run that fails in its analysis or diagram stage reports it through
\* status and errorMessage and leaves qaStatus without the error mark.
C20_QaStatusFollowsQuestionStage ==
    [][/\ (qaStatus # "error" /\ qaStatus' = "error")
          => \E r \in 1..Len(runs) : Fails(r) /\ runs[r].pc = "questions"
       /\ \A r \in 1..Len(runs) :
             (Fails(r) /\ runs[r].pc \in {"analysis", "diagram"})
             => /\ status' = "error"
                /\ errorMessage' # NoMessage
                /\ qaStatus # "error" => qaStatus' # "error"]_vars

\* -- C21
\* an analysis answer the stage does not accept: the call rejected, the
\* text is no JSON, or the parsed value lacks a summary or a steps array
AnalysisRejected(response) ==
    \/ ~response.ok
    \/ ~ParseJsonFromText(response.v).ok
    \/ ~Truthy(Get(ParseJsonFromText(response.v).v, "summary"))
    \/ ~IsArray(Get(ParseJsonFromText(response.v).v, "steps"))

\* C21: a run whose analysis answer is rejected fails at that answer: it
\* has issued no diagram and no question request and issues none afterwards,
\* it never sets summaryData (which stays null when no other run or sample
\* writes it), and it ends with status 'error' and an error message.
C21_AnalysisFailureStopsTheRun ==
    [][\A r \in 1..Len(runs) :
          /\ (runs[r].pc = "analysis" /\ Resumes(r))
                => (AnalysisRejected(FailedAnswer(r)) <=> Fails(r))
          /\ (runs[r].pc = "analysis" /\ Fails(r))
                => /\ \A i \in 1..Len(runs'[r].sent) : runs'[r].sent[i].kind = "analysis"
                   /\ runs'[r].plan = Null
                   /\ runs'[r].wrote = <<>>
                   /\ summaryData' = summaryData
                   /\ Len(runs) = 1 => summaryData' = Null
                   /\ status' = "error"
                   /\ errorMessage' # NoMessage
          /\ runs[r].pc = "done" => runs'[r] = runs[r]]_vars

\* a run has failed at an analysis answer that parsed but lacked the summary
C21_Witness ==
    /\ Len(runs) = 1
    /\ runs[1].pc = "done"
    /\ Kinds(runs[1].sent) = <<"analysis">>
    /\ Len(runs[1].received) = 1
    /\ runs[1].received[1].ok
    /\ ParseJsonFromText(runs[1].received[1].v).ok
    /\ status = "error"
    /\ summaryData = Null
    /\ errorMessage = [kind |-> "error", text |-> "plan failed validation"]

\* -- C24
\* the lines of a text in which e occurs
LinesWith(e, lines) == { l \in 1..Len(lines) : Occurs(e, lines[l]) }

\* C24: runs without text contribute nothing to the text of their page (it
\* is the text of the page without them, and holds nothing but newlines
\* when no run is left), every rounded baseline of the remaining runs gives
\* one line, and two remaining runs are on the same line if and only if
\* their baselines round to the same integer.
C24_LinesGroupByRoundedBaseline ==
    [][\A u \in 1..Len(uploads) :
          PdfReadOk(u) =>
             \A k \in 1..Len(uploads[u].file.pages) :
                LET items == uploads[u].file.pages[k]
                    body  == PageBody(pdfText', k)
                    lines == LinesOf(body)
                    kept  == SelectSeq(items, HasText)
                IN  /\ kept = <<>> => \A p \in 1..Len(body) : body[p] = "\n"
                    /\ kept # <<>> => body = PageText(kept)
                    /\ Cardinality({ l \in 1..Len(lines) : lines[l] # <<>> })
                         = Cardinality(Baselines(items))
                    /\ \A i \in 1..Len(items) : \A j \in 1..Len(items) :
                          (/\ HasText(items[i]) /\ HasText(items[j])
                           /\ Emitted(items[i].str) # Emitted(items[j].str)
                           /\ Cardinality(LinesWith(Emitted(items[i].str), lines)) = 1
                           /\ Cardinality(LinesWith(Emitted(items[j].str), lines)) = 1)
                          => (LinesWith(Emitted(items[i].str), lines)
                                = LinesWith(Emitted(items[j].str), lines)
                              <=> Rounded(items[i].y) = Rounded(items[j].y))]_vars

\* a page has been read whose runs at 99.5 and 100.25 share a line
C24_Witness ==
    \E u \in 1..Len(uploads) :
        /\ uploads[u].pc = "toc"
        /\ uploads[u].file.pages =
             << <<TextItem(<<"a", "b">>, 40, 398), TextItem(<<"1", "2">>, 8, 401)>> >>
        /\ pdfText = PageMarker(1) \o <<"a", "b", " ", "1", "2", "\n", "\n">>

\* -- C25
\* where e starts in t (e occurs in t)
StartOf(e, t) ==
    CHOOSE p \in 1..(Len(t) - Len(e) + 1) :
        /\ SubSeq(t, p, p + Len(e) - 1) = e
        /\ \A q \in 1..(p - 1) : SubSeq(t, q, q + Len(e) - 1) # e

\* the places where e occurs in t
Places(e, t) == { p \in 1..(Len(t) - Len(e) + 1) : SubSeq(t, p, p + Len(e) - 1) = e }

\* C25: of two runs of a line, the one with the larger originX comes first
\* in the line text.
C25_RunsByDescendingOriginX ==
    [][\A u \in 1..Len(uploads) :
          PdfReadOk(u) =>
             \A k \in 1..Len(uploads[u].file.pages) :
                LET items == uploads[u].file.pages[k]
                    lines == LinesOf(PageBody(pdfText', k))
                IN  \A i \in 1..Len(items) : \A j \in 1..Len(items) :
                       (/\ HasText(items[i]) /\ HasText(items[j])
                        /\ Rounded(items[i].y) = Rounded(items[j].y)
                        /\ items[i].x > items[j].x
                        /\ Emitted(items[i].str) # Emitted(items[j].str))
                       => \E l \in 1..Len(lines) :
                             /\ Cardinality(Places(Emitted(items[i].str), lines[l])) = 1
                             /\ Cardinality(Places(Emitted(items[j].str), lines[l])) = 1
                             /\ StartOf(Emitted(items[i].str), lines[l])
                                  + Len(items[i].str)
                                  <= StartOf(Emitted(items[j].str), lines[l])]_vars

\* a line of three runs given as x = 8, 19, 40 has been read: its text runs
\* from the run at 40 to the run at 8
C25_Witness ==
    \E u \in 1..Len(uploads) :
        /\ uploads[u].pc = "toc"
        /\ uploads[u].file.pages =
             << <<TextItem(<<"1">>, 8, 400), TextItem(<<"2">>, 19, 400),
                  TextItem(<<"a">>, 40, 400)>> >>
        /\ pdfText = PageMarker(1) \o <<"a", " ", "2", " ", "1", "\n", "\n">>

\* -- C26
\* the runs with text of a line, as indices into the items of the page
RunsOn(items, n) == { i \in 1..Len(items) : HasText(items[i]) /\ Rounded(items[i].y) = n }

\* the text of a set of runs with different originX, read from the largest
\* originX down: after each run but the last, one space exactly when the gap
\* to the next run exceeds a quarter of the run's height
RECURSIVE Spaced(_, _)
Spaced(items, on) ==
    IF on = {} THEN <<>>
    ELSE LET earlier == CHOOSE i \in on : \A j \in on : items[i].x >= items[j].x
             rest    == on \ {earlier}
             later   == CHOOSE i \in rest : \A j \in rest : items[i].x >= items[j].x
             space   == /\ rest # {}
                        /\ 4 * (items[earlier].x - (items[later].x + items[later].width))
                             > items[earlier].height
         IN  Emitted(items[earlier].str) \o (IF space THEN <<" ">> ELSE <<>>)
               \o Spaced(items, rest)

\* C26: between two adjacent runs of a line exactly one space is inserted if
\* and only if earlier.originX - (later.originX + later.width) is greater
\* than 0.25 * earlier.height; nothing follows the last run, and no other
\* whitespace is inserted or removed.
C26_SpaceWhenGapExceedsQuarterHeight ==
    [][\A u \in 1..Len(uploads) :
          PdfReadOk(u) =>
             \A k \in 1..Len(uploads[u].file.pages) :
                LET items == uploads[u].file.pages[k]
                    lines == LinesOf(PageBody(pdfText', k))
                IN  \A l \in 1..Cardinality(Baselines(items)) :
                       LET on == RunsOn(items, NthLargest(Baselines(items), l))
                       IN  (\A i \in on : \A j \in on : i # j => items[i].x # items[j].x)
                           => lines[l] = Spaced(items, on)]_vars

\* a line has been read whose runs are 2 apart, a quarter of the height 8
\* of the earlier one (no space), next to a run 5 further (a space)
C26_Witness ==
    \E u \in 1..Len(uploads) :
        /\ uploads[u].pc = "toc"
        /\ uploads[u].file.pages =
             << <<TextItem(<<"1">>, 8, 400), TextItem(<<"2">>, 18, 400),
                  TextItem(<<"a">>, 40, 400)>> >>
        /\ pdfText = PageMarker(1) \o <<"a", " ", "2", "1", "\n", "\n">>

\* -- C27
\* C27: when the answer text has no fenced block, the candidate is the
\* substring of the trimmed text from the first '[' or '{' through the last
\* ']' or '}' when that end lies after the start; with no '[' or '{', or no
\* closing bracket after the start, it is the whole trimmed text; an empty
\* text yields the empty string.
C27_BracketScanWithoutFence ==
    [][\A r \in 1..Len(runs) :
          (AnalysisAnswered(r) /\ ~HasFencedBlock(AnswerText(r)))
          => \E trimmed \in {Stripped(AnswerText(r))} :
             \E candidate \in {extractJsonFromText(AnswerText(r))} :
             \E opens \in {{i \in 1..Len(trimmed) : trimmed[i] \in {"[", "{"}}} :
             \E closes \in {{i \in 1..Len(trimmed) : trimmed[i] \in {"]", "}"}}} :
                 /\ opens = {} => candidate = trimmed
                 /\ opens # {} =>
                       LET start == CHOOSE i \in opens : \A j \in opens : i <= j
                           after == {i \in closes : i > start}
                       IN  IF after = {} THEN candidate = trimmed
                           ELSE candidate =
                                  SubSeq(trimmed, start,
                                         CHOOSE i \in after : \A j \in after : i >= j)
                 /\ AnswerText(r) = <<>> => candidate = <<>>]_vars

\* an unfenced answer with a plan between prose and a stray closing brace
\* has been received: the candidate runs to that brace and is no JSON
C27_Witness ==
    /\ Len(runs) = 1
    /\ runs[1].pc = "done"
    /\ runs[1].received
         = <<Return(<<"Here", " ">> \o JsonPlanWithSteps \o <<" ", "}">>)>>
    /\ extractJsonFromText(runs[1].received[1].v) = JsonPlanWithSteps \o <<" ", "}">>
    /\ errorMessage = [kind |-> "error", text |-> "Unexpected token"]

\* an empty answer has been received and its candidate is the empty string
C27_EmptyWitness ==
    /\ Len(runs) = 1
    /\ runs[1].pc = "done"
    /\ runs[1].received = <<Return(<<>>)>>
    /\ extractJsonFromText(runs[1].received[1].v) = <<>>

\* -- C28
\* the step at which a run receives the text of its diagram answer
DiagramAnswered(r) ==
    /\ runs[r].pc = "diagram"
    /\ Len(runs'[r].received) = Len(runs[r].received) + 1
    /\ runs'[r].received[Len(runs'[r].received)].ok

\* opening minus closing svg tags among t[i..j]
SvgDepth(t, i, j) ==
    Cardinality({k \in i..j : t[k] = "<svg"}) - Cardinality({k \in i..j : t[k] = "</svg>"})

\* the tag-balanced svg blocks of t: from an opening tag to the closing tag
\* that matches it
BalancedSvgBlocks(t) ==
    {b \in (1..Len(t)) \X (1..Len(t)) :
        /\ t[b[1]] = "<svg" /\ t[b[2]] = "</svg>"
        /\ SvgDepth(t, b[1], b[2]) = 0
        /\ \A k \in b[1]..(b[2] - 1) : SvgDepth(t, b[1], k) > 0}

FirstBalancedSvgBlock(t) ==
    LET b == CHOOSE x \in BalancedSvgBlocks(t) : \A y \in BalancedSvgBlocks(t) : x[1] <= y[1]
    IN  SubSeq(t, b[1], b[2])

\* C28: when the diagram answer holds a tag-balanced svg block, the diagram
\* slot is set to the first one, from its opening tag to the closing tag
\* that matches it (also when svg elements are nested), without the text
\* around it; otherwise the diagram stage fails and the slot is empty.
C28_DiagramIsFirstBalancedSvgBlock ==
    [][\A r \in 1..Len(runs) :
          DiagramAnswered(r)
          => \E text \in {FailedAnswer(r).v} :
                IF BalancedSvgBlocks(text) # {}
                THEN flowchartSvg' = FirstBalancedSvgBlock(text)
                ELSE Fails(r) /\ flowchartSvg' = <<>>]_vars

\* the same for answers whose svg elements are not nested
C28_UnnestedSvgBlockIsKept ==
    [][\A r \in 1..Len(runs) :
          DiagramAnswered(r)
          => \E text \in {FailedAnswer(r).v} :
                (\A b \in BalancedSvgBlocks(text) :
                    \A k \in (b[1] + 1)..b[2] : text[k] # "<svg")
                => IF BalancedSvgBlocks(text) # {}
                   THEN flowchartSvg' = FirstBalancedSvgBlock(text)
                   ELSE Fails(r) /\ flowchartSvg' = <<>>]_vars

\* -- C29
\* C29: in every reachable state, under any interleaving of user actions
\* and oracle completions, status 'success' implies that summaryData is
\* not null.
C29_SuccessHasSummary == status = "success" => summaryData # Null

\* -- C30
\* C30: whenever a handler has yielded control with status 'parsing' or
\* 'generating', loadingMessage is not empty; in particular during the
\* analysis run that a successful file upload starts.
C30_BusyStatusHasLoadingMessage ==
    status \in {"parsing", "generating"} => loadingMessage # ""

\* -- C22
\* this step is the end of upload u with its table of contents extracted:
\* handleFileChange calls handleGenerate (the extraction throws only when
\* the worker URL is not configured)
UploadCallsGenerate(u) ==
    /\ uploads[u].pc = "toc"
    /\ uploads'[u].pc = "done"
    /\ workerUrlConfigured

\* C22: handleGenerate invoked while the text input and the document text
\* are both empty or blank reports the empty-document error (status
\* 'error' with an error message), issues no oracle request, and leaves
\* summaryData, flowchartSvg, topQuestions, qaStatus and documentSource
\* unchanged.
C22_EmptyInputIsReportedWithoutRequest ==
    [][\A u \in 1..Len(uploads) :
          (UploadCallsGenerate(u) /\ Trim(userInput) = <<>> /\ Trim(pdfText) = <<>>)
          => /\ status' = "error"
             /\ errorMessage' = EmptyInputMessage
             /\ runs' = runs
             /\ uploads'[u].sent = uploads[u].sent
             /\ summaryData' = summaryData
             /\ flowchartSvg' = flowchartSvg
             /\ topQuestions' = topQuestions
             /\ qaStatus' = qaStatus
             /\ documentSource' = documentSource]_vars

\* an upload has ended by calling handleGenerate after a second upload had
\* emptied the document, and a superseded run has written its plan in
\* between: the empty-document error is shown and the summary is kept
C22_Witness ==
    /\ errorMessage = EmptyInputMessage
    /\ status = "error"
    /\ Len(uploads) = 2
    /\ uploads[1].pc = "done"
    /\ uploads[2].pc = "readPdf"
    /\ summaryData # Null
    /\ \A r \in 1..Len(runs) : runs[r].pc # "analysis"

\* -- C23
\* run r has been started and has not ended
Awaiting(r) == r <= Len(runs) /\ runs[r].pc # "done"

\* every run that has been started ends
C23_RunsEnd ==
    \A r \in 1..MaxInvocations : Awaiting(r) ~> (r <= Len(runs) /\ runs[r].pc = "done")

\* a run changes its stage only when an answer to its request arrives, and
\* the step that ends it leaves status 'success' or 'error' and an empty
\* loadingMessage
C23_RunsMoveOnAnswersOnly ==
    [][\A r \in 1..Len(runs) :
          /\ Resumes(r) => Len(runs'[r].received) = Len(runs[r].received) + 1
          /\ (runs[r].pc # "done" /\ runs'[r].pc = "done")
             => status' \in {"success", "error"} /\ loadingMessage' = ""]_vars

\* while a run awaits an answer, status is 'generating'
C23_AwaitingRunKeepsGenerating ==
    \A r \in 1..Len(runs) : runs[r].pc # "done" => status = "generating"

\* C23: provided every oracle call eventually resolves or rejects, every
\* analysis run eventually leaves status 'generating' for 'success' or
\* 'error' and clears loadingMessage; there is no timeout transition: as
\* long as an oracle call of the run has not completed, the run stays in its
\* stage with status 'generating'.
C23_RunsEndAndStayGeneratingMeanwhile ==
    /\ C23_RunsEnd
    /\ C23_RunsMoveOnAnswersOnly
    /\ []C23_AwaitingRunKeepsGenerating

\* at most one chat request awaits its answer
C31_OneChatOutstanding == Cardinality(InFlight(chats)) <= 1

\* the step that ends chat c: its response, or its failure, has arrived
ChatAnswered(c) == c <= Len(chats) /\ chats[c].pc # "done" /\ chats'[c].pc = "done"

\* a chat that writes into the history is the last one sent (the last entry
\* of the history is then the placeholder of its own send), and the
\* document it asked about is the current one (handleGenerate stores the
\* document trimmed)
C31_AnswerGoesToOwnPlaceholder ==
    [][\A c \in 1..Len(chats) :
          (ChatAnswered(c) /\ chatHistory' # chatHistory)
          => /\ c = Len(chats)
             /\ \A i \in 1..Len(chats[c].sent) :
                   Trim(chats[c].sent[i].document) = Trim(documentSource)]_vars

\* C31: at most one chat request is outstanding at any time, and each chat
\* response (or chat failure message) is written only into the model
\* placeholder created by the send that issued that request, under any
\* interleaving of handleSendMessage, a handleClear and response arrival:
\* an answer computed for a previous document never appears in the chat
\* history of the current one.
C31_ChatAnswersStayWithTheirRequest ==
    /\ []C31_OneChatOutstanding
    /\ C31_AnswerGoesToOwnPlaceholder

\* C36: handleClearResults resets only the generation view (userInput
\* empty, flowchartSvg empty, summaryData null, errorMessage null, status
\* 'idle', loadingMessage empty) and leaves pdfText, pdfFileName,
\* documentSource, tableOfContents, topQuestions, qaStatus, chatHistory, the
\* quiz signals and the optimization signals unchanged.
C36_ClearResultsResetsOnlyTheGenerationView ==
    [][HandleClearResults
       => /\ userInput' = <<>>
          /\ flowchartSvg' = <<>>
          /\ summaryData' = Null
          /\ errorMessage' = NoMessage
          /\ status' = "idle"
          /\ loadingMessage' = ""
          /\ UNCHANGED <<pdfText, pdfFileName, documentSource, tableOfContents,
                         topQuestions, qaStatus, chatHistory, quizStatus,
                         quizQuestions, currentQuestionIndex, userAnswers, quizError,
                         optimizationStatus, optimizationSuggestions,
                         optimizationError>>]_vars

\* the results of a restored session have been cleared: its document, table
\* of contents and questions are still there
C36_Witness ==
    /\ status = "idle"
    /\ summaryData = Null
    /\ flowchartSvg = <<>>
    /\ userInput = <<>>
    /\ pdfText # <<>>
    /\ documentSource # <<>>
    /\ Truthy(tableOfContents)
    /\ Len(topQuestions.v) > 0
    /\ qaStatus = "success"

\* the status a reload restores from what the effect of initializeApp has
\* persisted of the current signals
RestoredStatus ==
    loadStateFromLocalStorage(InitialSignals(workerUrlConfigured),
                              SavedState(Signals)).status

\* C35: reloading never turns a failed run into a success: if the session
\* was persisted while the last run had ended with status 'error', the
\* restored status is not 'success'; more generally the restored status is
\* 'success' only if the persisted session's last run had reached 'success',
\* and 'parsing', 'generating' and 'error' are never restored.
C35_ReloadKeepsFailureFromSuccess ==
    /\ status = "error" => RestoredStatus # "success"
    /\ RestoredStatus = "success" => status = "success"
    /\ RestoredStatus \notin {"parsing", "generating", "error"}

\* the step in which the answer to optimization request o, or to quiz
\* request q, arrives
OptimizationAnswered(o) ==
    /\ o <= Len(optimizations)
    /\ optimizations[o].pc # "done"
    /\ optimizations'[o].pc = "done"

QuizAnswered(q) ==
    q <= Len(quizzes) /\ quizzes[q].pc # "done" /\ quizzes'[q].pc = "done"

\* C34: the result of a feature request issued before a reset is never
\* installed after the reset: an optimization response that arrives after a
\* new analysis run has started (handleGenerate has set optimizationStatus
\* 'idle' and emptied optimizationSuggestions) leaves the suggestions empty
\* and the status 'idle', and a quiz response that arrives after handleClear
\* (quizStatus 'idle') leaves quizQuestions empty and quizStatus 'idle'.
C34_StaleFeatureResultsAreDropped ==
    [][/\ \A o \in 1..Len(optimizations) :
             (OptimizationAnswered(o) /\ optimizationStatus = "idle")
             => /\ optimizationSuggestions' = Arr(<<>>)
                /\ optimizationStatus' = "idle"
       /\ \A q \in 1..Len(quizzes) :
             (QuizAnswered(q) /\ quizStatus = "idle")
             => /\ quizQuestions' = Arr(<<>>)
                /\ quizStatus' = "idle"]_vars

\* the answers to the table-of-contents request that give no table: the
\* oracle rejects, or its text is not JSON, not an array or an empty array
TocFailures == TocAnswers \ {HttpOk(JsonTocList)}

\* C38: after text has been extracted from an uploaded PDF or image, a
\* failure of the table-of-contents request (oracle rejection, unparsable
\* JSON, a non-array or an empty array; with the proxy configured) leaves
\* tableOfContents null and does not fail the upload: pdfText holds the
\* extracted text, documentSource holds it as handleGenerate stores it
\* (trimmed), and exactly one analysis run is started on it.
C38_TocFailureDoesNotFailTheUpload ==
    \A u \in InFlight(uploads) : \A net \in TocFailures :
        (uploads[u].pc = "toc" /\ workerUrlConfigured)
        => \E text \in {uploads[u].sent[Len(uploads[u].sent)].document} :
           \E out \in {AfterToc(Signals, uploads[u],
                          extractTocFromText(callSecureApi(workerUrlConfigured, net)))} :
              /\ out.sig.tableOfContents = Null
              /\ out.upload.settled = "fulfilled"
              /\ out.sig.status = "generating"
              /\ out.sig.errorMessage = NoMessage
              /\ out.sig.pdfText = text
              /\ out.sig.documentSource = Trim(text)
              /\ out.started
              /\ out.run.documentContext = Trim(text)

\* the requests of a run that carry the document
DocumentRequests(run) ==
    {i \in 1..Len(run.sent) : run.sent[i].kind \in {"analysis", "questions"}}

\* C39: handleGenerate uses the uploaded-document text as the document
\* context whenever it is non-empty after trimming (the text input is then
\* the user query, or the default query when it is empty); otherwise the
\* trimmed text input is the document and the default query is used;
\* documentSource is set to the chosen context before any request, and every
\* analysis and questions request of the run carries that context, whatever
\* documentSource becomes while the run is in flight.
C39_RunKeepsItsDocumentContext ==
    [][/\ Len(runs') = Len(runs) + 1
          => \E run \in {runs'[Len(runs')]} :
             \E fromPdf \in {Trim(pdfText')} :
             \E fromInput \in {Trim(userInput')} :
                /\ run.documentContext = IF fromPdf # <<>> THEN fromPdf ELSE fromInput
                /\ documentSource' = run.documentContext
                /\ workerUrlConfigured
                   => /\ Len(run.sent) = 1
                      /\ run.sent[1].kind = "analysis"
                      /\ run.sent[1].query =
                            IF fromPdf # <<>> /\ fromInput # <<>> THEN fromInput
                            ELSE DefaultQuery
       /\ \A r \in 1..Len(runs') :
             /\ r <= Len(runs) => runs'[r].documentContext = runs[r].documentContext
             /\ \A i \in DocumentRequests(runs'[r]) :
                   runs'[r].sent[i].document = runs'[r].documentContext]_vars

\* a run started with a query typed by the user has sent its questions
\* request after the document was cleared under it
C39_Witness ==
    \E r \in 1..Len(runs) :
        /\ Kinds(runs[r].sent) = <<"analysis", "questions">>
        /\ runs[r].sent[1].query = <<"procedure">>
        /\ runs[r].sent[2].document = runs[r].documentContext
        /\ documentSource # runs[r].documentContext

\* the answers to the quiz request that give no quiz: the oracle rejects, or
\* its text is not JSON, not an array or an empty array
QuizFailures == QuizAnswers \ {HttpOk(JsonQuizList)}

\* C33: under any interleaving of handleStartQuiz, its completion,
\* handleAnswerSelect, handleResetQuiz and handleClear: while quizStatus is
\* 'active', quizQuestions is non-empty and currentQuestionIndex =
\* length(userAnswers) < length(quizQuestions); while it is 'finished',
\* length(userAnswers) = length(quizQuestions); and a failed quiz
\* generation sets quizStatus 'error' and leaves quizQuestions,
\* currentQuestionIndex and userAnswers unchanged.
C33_QuizProgress ==
    /\ quizStatus = "active"
       => /\ Len(quizQuestions.v) > 0
          /\ currentQuestionIndex = Len(userAnswers)
          /\ Len(userAnswers) < Len(quizQuestions.v)
    /\ quizStatus = "finished" => Len(userAnswers) = Len(quizQuestions.v)
    /\ \A q \in InFlight(quizzes) : \A net \in QuizFailures :
          \E out \in {AfterQuiz(Signals, quizzes[q],
                         NonEmptyArrayStage(callSecureApi(workerUrlConfigured, net),
                                            "no valid questions"))} :
             /\ out.sig.quizStatus = "error"
             /\ out.sig.quizQuestions = quizQuestions
             /\ out.sig.currentQuestionIndex = currentQuestionIndex
             /\ out.sig.userAnswers = userAnswers

\* a quiz generation has failed while the quiz of an earlier request was
\* being answered: the questions and the answer given are still there
C33_Witness ==
    /\ quizStatus = "error"
    /\ Len(quizQuestions.v) > 0
    /\ Len(userAnswers) = 1
    /\ currentQuestionIndex = 1
    /\ InFlight(quizzes) = {}

\* every question of a quiz has been answered
C33_FinishedWitness ==
    /\ quizStatus = "finished"
    /\ Len(userAnswers) = Len(quizQuestions.v)
    /\ Len(userAnswers) > 1

\* C32: the node-query system instruction is used only for the chat message
\* generated by a flowchart-node click: once the deferred send scheduled by
\* startChatWithNode has run, isNodeQuery is false, whether or not that
\* send was accepted, so a message the user types later is sent with the
\* default instruction.
C32_NodeInstructionOnlyForNodeMessage ==
    [][/\ nodeTimers' < nodeTimers => ~isNodeQuery'
       /\ (Len(chats') > Len(chats) /\ nodeTimers = 0)
          => ~chats'[Len(chats')].nodeQuery]_vars

\* the signals handleFileChange writes after its call of handleClear and
\* before its first await, or its catch block when the file type is rejected
UploadSignals == {"pdfFileName", "status", "loadingMessage", "errorMessage"}

\* C37: handleClear returns every document, result and feature signal to
\* its initial value (empty document text and file name, null summary and
\* table of contents, empty diagram, empty question list, chat history and
\* quiz, all statuses 'idle', isChatting false), and every file upload runs
\* it before the file type is checked, so that a rejected upload also
\* discards the previous session.
C37_ClearReturnsToInitialSignals ==
    \E initial \in {InitialSignals(workerUrlConfigured)} :
        /\ handleClear(Signals) = initial
        /\ \A file \in UploadFiles :
              \E uploading \in {handleFileChange(Signals, file).sig} :
                 \A name \in DOMAIN initial \ UploadSignals :
                    uploading[name] = initial[name]
====
